---- MODULE Spec2Model ----
(***************************************************************************)
(* The swarm orchestration engine of nexus (src/src/swarm.rs): the planner *)
(* (architect_plan, architect_with_dependencies, parse_dependencies), the  *)
(* wave scheduler (run_parallel_workers), the worker (run_task,            *)
(* pick_worker) and the self-correction pass (self_correction).            *)
(*                                                                         *)
(* Rust Strings are TLA+ strings; Len, \o and SubSeq act on them character *)
(* by character.  A Vec is a sequence, a BTreeSet a set, a BTreeMap a      *)
(* function whose domain is iterated in ascending key order.               *)
(***************************************************************************)
EXTENDS Integers, Sequences, FiniteSets, TLC

VARIABLES
    source,     \* "text": the plan comes from architect_with_dependencies(text); "tasks": a Task list handed to run_parallel_workers
    text,       \* the raw input text of `swarm run`
    tasks,      \* the Task list passed to run_parallel_workers
    pc,         \* position of the orchestrating thread
    remaining,  \* BTreeMap<usize, Task> (swarm.rs:74)
    completed,  \* BTreeSet<usize>       (swarm.rs:79)
    results,    \* Vec<TaskResult>       (swarm.rs:80), before self_correction
    handles,    \* Vec<JoinHandle> of the current wave, by task id, in spawn order
    thread,     \* the spawned worker threads: id -> [st, task, wave, result]
    wave,       \* number of waves dispatched so far
    blocked,    \* ids reported by the Blocked path (swarm.rs:89-98)
    final,      \* the Vec<TaskResult> returned by run_parallel_workers
    cmd,        \* the running `nexus swarm plan|run` commands: writer -> its locals (main.rs:394-418)
    file,       \* the swarm event log on disk (storage.rs:234-254)
    watch,      \* the locals of one analyze_log call (watcher.rs:29-117)
    daemon,     \* run_daemon: the watched log, incidents.json, notifications.json and the two watcher threads (daemon.rs:37-99)
    documents,  \* LocalVectorStore.documents (vector.rs:31)
    call        \* the last call of upsert or query on the store, with what it returned

swarmVars == <<source, text, tasks, pc, remaining, completed, results,
               handles, thread, wave, blocked, final>>
cmdVars == <<cmd, file>>
watchVars == <<watch, daemon>>
storeVars == <<documents, call>>

vars == <<swarmVars, cmdVars, watchVars, storeVars>>

----------------------------------------------------------------------------
(* Bounds of the model *)

\* ids of the hand-made Task lists are drawn from 1..MaxTasks
MaxTasks == 3
\* a hand-made Task has at most MaxDeps dependencies
MaxDeps == 2
\* and at most MaxFairDeps dependencies in the runs checked for termination
MaxFairDeps == 1

----------------------------------------------------------------------------
(* Strings *)

CharAt(s, i) == SubSeq(s, i, i)

\* str::contains(&str): pat occurs in s as a contiguous substring (str and
\* pat name the values of the two arguments, evaluated once)
Contains(s, sub) ==
    \E str \in {s} : \E pat \in {sub} :
        \E i \in 1..(Len(str) - Len(pat) + 1) :
            SubSeq(str, i, i + Len(pat) - 1) = pat

lowerMap ==
    "A" :> "a" @@ "B" :> "b" @@ "C" :> "c" @@ "D" :> "d" @@ "E" :> "e" @@
    "F" :> "f" @@ "G" :> "g" @@ "H" :> "h" @@ "I" :> "i" @@ "J" :> "j" @@
    "K" :> "k" @@ "L" :> "l" @@ "M" :> "m" @@ "N" :> "n" @@ "O" :> "o" @@
    "P" :> "p" @@ "Q" :> "q" @@ "R" :> "r" @@ "S" :> "s" @@ "T" :> "t" @@
    "U" :> "u" @@ "V" :> "v" @@ "W" :> "w" @@ "X" :> "x" @@ "Y" :> "y" @@
    "Z" :> "z"

ToLowerChar(c) == IF c \in DOMAIN lowerMap THEN lowerMap[c] ELSE c

\* the characters i.. of s, lowercased
RECURSIVE LowerFrom(_, _)
LowerFrom(s, i) ==
    IF i > Len(s) THEN ""
    ELSE ToLowerChar(CharAt(s, i)) \o LowerFrom(s, i + 1)

\* str::to_lowercase on ASCII text
to_lowercase(s) == LowerFrom(s, 1)

IsWhitespace(c) == c \in {" ", "\t", "\r", "\n", "\f"}

RECURSIVE TrimStart(_)
TrimStart(s) ==
    IF s # "" /\ IsWhitespace(CharAt(s, 1)) THEN TrimStart(Tail(s)) ELSE s

RECURSIVE TrimEnd(_)
TrimEnd(s) ==
    IF s # "" /\ IsWhitespace(CharAt(s, Len(s)))
    THEN TrimEnd(SubSeq(s, 1, Len(s) - 1))
    ELSE s

\* str::trim
Trim(s) == TrimEnd(TrimStart(s))

\* position of the first "\n" of s, or 0
RECURSIVE FirstNewline(_, _)
FirstNewline(s, i) ==
    IF i > Len(s) THEN 0
    ELSE IF CharAt(s, i) = "\n" THEN i
    ELSE FirstNewline(s, i + 1)

\* a line without its "\n": a "\r" right before the "\n" goes too
StripCr(l) ==
    IF l # "" /\ CharAt(l, Len(l)) = "\r" THEN SubSeq(l, 1, Len(l) - 1) ELSE l

\* str::lines: split after every "\n"; a final line ending opens no empty line
RECURSIVE Lines(_)
Lines(s) ==
    IF s = "" THEN <<>>
    ELSE LET n == FirstNewline(s, 1) IN
         IF n = 0 THEN <<s>>
         ELSE <<StripCr(SubSeq(s, 1, n - 1))>> \o Lines(SubSeq(s, n + 1, Len(s)))

----------------------------------------------------------------------------
(* Sequences and maps *)

\* the elements of a finite set of numbers in ascending order (BTreeMap and
\* BTreeSet iteration): the i-th is the one with i-1 smaller elements
Ascending(S) ==
    [i \in 1..Cardinality(S) |->
        CHOOSE x \in S : Cardinality({y \in S : y < x}) = i - 1]

----------------------------------------------------------------------------
(* Planner *)

\* struct Task
Task(id, description, dependencies) ==
    [id |-> id, description |-> description, dependencies |-> dependencies]

\* struct TaskResult
TaskResult(id, summary, worker) ==
    [id |-> id, summary |-> summary, worker |-> worker]

\* a planner that numbers the tasks 1, 2, ... in the order it creates them
RECURSIVE PlanFromCompact(_, _)
PlanFromCompact(ls, i) ==
    IF i > Len(ls) THEN <<>>
    ELSE (IF Trim(ls[i]) = "" THEN <<>>
          ELSE <<Task(Cardinality({j \in 1..i : Trim(ls[j]) # ""}),
                      Trim(ls[i]), {})>>)
         \o PlanFromCompact(ls, i + 1)

\* lines i.. of the input, i = 0-based index + 1: one Task per non-blank trimmed line
RECURSIVE PlanFrom(_, _)
PlanFrom(ls, i) ==
    IF i > Len(ls) THEN <<>>
    ELSE LET trimmed == Trim(ls[i]) IN
         (IF trimmed = "" THEN <<>> ELSE <<Task(i, trimmed, {})>>)
         \o PlanFrom(ls, i + 1)

\* a planner that tests the untrimmed line for emptiness
RECURSIVE PlanFromUntrimmed(_, _)
PlanFromUntrimmed(ls, i) ==
    IF i > Len(ls) THEN <<>>
    ELSE (IF ls[i] = "" THEN <<>> ELSE <<Task(i, Trim(ls[i]), {})>>)
         \o PlanFromUntrimmed(ls, i + 1)

architect_plan_untrimmed(input) == PlanFromUntrimmed(Lines(input), 1)

architect_plan(input) == PlanFrom(Lines(input), 1)

\* a mapping in which the first task with a key keeps it
DescriptionMapFirst(ts) ==
    [name \in {to_lowercase(ts[i].description) : i \in DOMAIN ts} |->
        LET first == CHOOSE i \in DOMAIN ts :
                         /\ to_lowercase(ts[i].description) = name
                         /\ \A j \in DOMAIN ts :
                               to_lowercase(ts[j].description) = name => i <= j
        IN ts[first].id]

\* mapping.insert(description.to_lowercase(), id) for every task in order:
\* a later task with the same key replaces the earlier one
DescriptionMap(ts) ==
    [name \in {to_lowercase(ts[i].description) : i \in DOMAIN ts} |->
        LET last == CHOOSE i \in DOMAIN ts :
                        /\ to_lowercase(ts[i].description) = name
                        /\ \A j \in DOMAIN ts :
                              to_lowercase(ts[j].description) = name => j <= i
        IN ts[last].id]

\* a parser for which a description with a keyword also names itself
parse_dependencies_reflexive(description, mapping) ==
    LET lower == to_lowercase(description) IN
    {mapping[name] : name \in
        {n \in DOMAIN mapping :
            \/ Contains(lower, "after " \o n)
            \/ Contains(lower, "depends on " \o n)
            \/ n = lower /\ Contains(lower, "after ")
            \/ n = lower /\ Contains(lower, "depends on ")}}

\* a parser that also takes the tasks naming this one for its dependencies
parse_dependencies_symmetric(description, mapping) ==
    LET lower == to_lowercase(description) IN
    {mapping[name] : name \in
        {n \in DOMAIN mapping :
            \/ Contains(lower, "after " \o n)
            \/ Contains(lower, "depends on " \o n)
            \/ Contains(n, "after " \o lower)
            \/ Contains(n, "depends on " \o lower)}}

\* a parser that takes the bare keyword for a reference to every task
parse_dependencies_loose(description, mapping) ==
    LET lower == to_lowercase(description) IN
    {mapping[name] : name \in
        {n \in DOMAIN mapping :
            \/ Contains(lower, "after ")
            \/ Contains(lower, "depends on ")}}

\* the ids (a Vec without duplicates, here a set) of the mapping's names that
\* the description names after "after " or "depends on "
parse_dependencies(description, mapping) ==
    LET lower == to_lowercase(description) IN
    {mapping[name] : name \in
        {n \in DOMAIN mapping :
            \/ Contains(lower, "after " \o n)
            \/ Contains(lower, "depends on " \o n)}}

\* a planner that keeps every task of a description: a task depends on all
\* the other tasks it names
architect_with_dependencies_multimap(input) ==
    LET ts == architect_plan(input) IN
    [i \in DOMAIN ts |->
        Task(ts[i].id, ts[i].description,
             {ts[j].id : j \in
                 {j \in DOMAIN ts :
                     LET lower == to_lowercase(ts[i].description)
                         name == to_lowercase(ts[j].description)
                     IN \/ Contains(lower, "after " \o name)
                        \/ Contains(lower, "depends on " \o name)}})]

architect_with_dependencies(input) ==
    LET ts == architect_plan(input)
        mapping == DescriptionMap(ts)
    IN [i \in DOMAIN ts |->
           Task(ts[i].id, ts[i].description,
                parse_dependencies(ts[i].description, mapping))]

----------------------------------------------------------------------------
(* Worker *)

\* a classification of the description as written, not lowercased
pick_worker_case_sensitive(description) ==
    IF Contains(description, "frontend") \/ Contains(description, "ui")
    THEN "frontend"
    ELSE IF Contains(description, "backend") \/ Contains(description, "api")
    THEN "backend"
    ELSE IF Contains(description, "qa") \/ Contains(description, "test")
    THEN "qa"
    ELSE "general"

\* the backend rule tested before the frontend rule
pick_worker_backend_first(description) ==
    LET lower == to_lowercase(description) IN
    IF Contains(lower, "backend") \/ Contains(lower, "api") THEN "backend"
    ELSE IF Contains(lower, "frontend") \/ Contains(lower, "ui") THEN "frontend"
    ELSE IF Contains(lower, "qa") \/ Contains(lower, "test") THEN "qa"
    ELSE "general"

\* lower names the value of description.to_lowercase(), evaluated once
pick_worker(description) ==
    LET Pick(lower) ==
            IF Contains(lower, "frontend") \/ Contains(lower, "ui")
            THEN "frontend"
            ELSE IF Contains(lower, "backend") \/ Contains(lower, "api")
            THEN "backend"
            ELSE IF Contains(lower, "qa") \/ Contains(lower, "test")
            THEN "qa"
            ELSE "general"
    IN CHOOSE w \in {Pick(lower) : lower \in {to_lowercase(description)}} : TRUE

\* a failure test on the description as written, not lowercased
run_task_case_sensitive(task) ==
    LET worker == pick_worker(task.description) IN
    TaskResult(task.id,
               IF Contains(task.description, "fail")
               THEN worker \o " failed: " \o task.description
               ELSE worker \o " completed: " \o task.description,
               worker)

\* worker names the value of pick_worker(&task.description), evaluated once;
\* the sleep of 50 ms is the time between the spawn and WorkerReturn
run_task(task) ==
    LET Run(worker) ==
            TaskResult(task.id,
                       IF Contains(to_lowercase(task.description), "fail")
                       THEN worker \o " failed: " \o task.description
                       ELSE worker \o " completed: " \o task.description,
                       worker)
    IN CHOOSE r \in {Run(worker) : worker \in {pick_worker(task.description)}} :
           TRUE

----------------------------------------------------------------------------
(* SelfCorrector *)

\* a rewrite that says "recovered" where the worker said "failed"
CorrectRecovered(result) ==
    IF Contains(result.summary, "failed")
    THEN TaskResult(result.id,
                    "Retry succeeded after adjustment: " \o result.worker
                        \o " recovered",
                    "self-corrector")
    ELSE result

\* a rewrite that drops the original summary
CorrectMasked(result) ==
    IF Contains(result.summary, "failed")
    THEN TaskResult(result.id, "Retry succeeded after adjustment",
                    "self-corrector")
    ELSE result

\* a test for "fail" in any case, as the Worker's
CorrectLikeWorker(result) ==
    IF Contains(to_lowercase(result.summary), "fail")
    THEN TaskResult(result.id,
                    "Retry succeeded after adjustment: " \o result.summary,
                    "self-corrector")
    ELSE result

\* the loop body of self_correction, for one result
Correct(result) ==
    IF Contains(result.summary, "failed")
    THEN TaskResult(result.id,
                    "Retry succeeded after adjustment: " \o result.summary,
                    "self-corrector")
    ELSE result

self_correction(rs) == [i \in DOMAIN rs |-> Correct(rs[i])]

----------------------------------------------------------------------------
(* Scheduler *)

\* tasks.iter().cloned().map(|task| (task.id, task)).collect(): the map keeps
\* the last Task of an id
Collect(ts) ==
    [id \in {ts[i].id : i \in DOMAIN ts} |->
        ts[CHOOSE i \in DOMAIN ts :
              ts[i].id = id /\ \A j \in DOMAIN ts : ts[j].id = id => j <= i]]

\* a filter that takes a task when one of its dependencies is completed
ReadyAny(rem, comp) ==
    {id \in DOMAIN rem :
        \/ rem[id].dependencies = {}
        \/ \E dep \in rem[id].dependencies : dep \in comp}

\* a ready set of the tasks without dependencies only
ReadyRootsOnly(rem, comp) ==
    {id \in DOMAIN rem : rem[id].dependencies = {}}

\* a wave of width one: the ready task of the smallest id
ReadyCapped(rem, comp) ==
    LET ready == {id \in DOMAIN rem :
                     \A dep \in rem[id].dependencies : dep \in comp}
    IN {id \in ready : \A other \in ready : id <= other}

\* ids of the tasks of rem whose dependencies are all in comp
Ready(rem, comp) ==
    {id \in DOMAIN rem : \A dep \in rem[id].dependencies : dep \in comp}

\* a Blocked path that leaves the loop without reporting the tasks
BlockedResultsNone(rem) == <<>>

\* the blocked tasks reported from the largest id to the smallest
BlockedResultsDescending(rem) ==
    LET ids == Ascending(DOMAIN rem) IN
    [i \in DOMAIN ids |->
        TaskResult(ids[Len(ids) + 1 - i],
                   "Blocked by dependencies: "
                       \o rem[ids[Len(ids) + 1 - i]].description,
                   "scheduler")]

\* blocked tasks reported like executed ones
BlockedResultsUnlabelled(rem) ==
    LET ids == Ascending(DOMAIN rem) IN
    [i \in DOMAIN ids |->
        TaskResult(ids[i], "general completed: " \o rem[ids[i]].description,
                   "general")]

\* one "Blocked by dependencies" result per task of rem, in key order
BlockedResults(rem) ==
    LET ids == Ascending(DOMAIN rem) IN
    [i \in DOMAIN ids |->
        TaskResult(ids[i],
                   "Blocked by dependencies: " \o rem[ids[i]].description,
                   "scheduler")]

\* a result inserted at the front
PushFront(rs, result) == <<result>> \o rs

\* results.push(result)
PushResult(rs, result) == Append(rs, result)

\* a join that takes the threads in the order they finish
JoinAnyFinished(hs, th) == {i \in DOMAIN hs : th[hs[i]].st = "finished"}

\* a join loop that takes the handles from the last to the first
JoinLast(hs, th) ==
    {i \in DOMAIN hs : i = Len(hs) /\ th[hs[i]].st = "finished"}

\* a join that returns before the thread has finished
JoinDetached(hs, th) == {i \in DOMAIN hs : i = 1}

\* positions in hs of the handle the join loop waits for: the handles are
\* joined in spawn order, whatever the order the threads finish in
JoinNext(hs, th) ==
    {i \in DOMAIN hs : i = 1 /\ th[hs[i]].st = "finished"}

\* a join loop that is left after its first join
AfterJoinEarly(hs) == "loop"

\* swarm.rs:106-112: the join loop runs over every handle of the wave; hs are
\* the handles not joined before this join
AfterJoin(hs) == IF Len(hs) = 1 THEN "loop" ELSE "join"

\* a spawn loop that removes only the first spawned task from remaining
RemoveFirst(rem, ids) ==
    [id \in DOMAIN rem \ {i \in ids : \A other \in ids : i <= other} |->
        rem[id]]

\* a spawn loop that leaves the spawned tasks in remaining
RemoveNone(rem, ids) == rem

Remove(rem, ids) == [id \in DOMAIN rem \ ids |-> rem[id]]

NoResult == TaskResult(0, "", "")

----------------------------------------------------------------------------
(* Inputs *)

\* raw texts given to `swarm run`
Texts ==
    { "", " ", "\n", " \n\t\r\n  ",
      "X after Y",
      "X depends on Y",
      "Implement fail case",
      "Audit FAILED logins",
      "Build backend api\nBuild frontend ui after Build backend api",
      "Build backend api\r\n\r\n  Build frontend ui after build BACKEND api  \n",
      "lint\ntest after lint\nship depends on test after lint",
      "qa\n\nfix Fail after QA\nqa",
      "a\nb after a\nc after a\nd after c, depends on b" }

\* descriptions of the hand-made tasks, by id
Descriptions ==
    <<"Build api", "Handle FAIL case", "retry failed test", "deploy backend">>

DescOf(id) == Descriptions[((id - 1) % Len(Descriptions)) + 1]

\* dependency sets of a hand-made task: ids of the plan, its own id, or ids
\* of no task of the plan
DepSetsUpTo(n) == {D \in SUBSET (1..MaxTasks) : Cardinality(D) <= n}

DepSets == DepSetsUpTo(MaxDeps)

Reverse(seq) == [i \in DOMAIN seq |-> seq[Len(seq) + 1 - i]]

\* the Task list with the ids S and the dependencies deps, with pairwise
\* distinct ids, in ascending or descending id order
Plan(S, deps, descending) ==
    LET ids == Ascending(S)
        ts == [i \in DOMAIN ids |-> Task(ids[i], DescOf(ids[i]), deps[ids[i]])]
    IN IF descending THEN Reverse(ts) ELSE ts

----------------------------------------------------------------------------
(* The parts of the program that are at rest while another part runs *)

\* run_parallel_workers has not been called
SwarmIdle ==
    /\ source = "none" /\ text = "" /\ tasks = <<>> /\ pc = "idle"
    /\ remaining = <<>> /\ completed = {} /\ results = <<>>
    /\ handles = <<>> /\ thread = <<>> /\ wave = 0
    /\ blocked = {} /\ final = <<>>

\* no `nexus swarm` command is running and no event log has been written
CmdIdle == cmd = <<>> /\ file = [st |-> "absent", events |-> <<>>]

\* analyze_log has not been called and no daemon is running
WatchIdle == watch = [pc |-> "idle"] /\ daemon = [pc |-> "idle"]

\* no LocalVectorStore exists
StoreIdle == documents = <<>> /\ call = [op |-> "none"]

----------------------------------------------------------------------------
(* The state machine *)

\* before `swarm run` plans its input text, or before run_parallel_workers
\* is called on a hand-made Task list with dependency sets from depSets
InitWith(depSets) ==
    /\ \/ source = "text" /\ text \in Texts /\ tasks = <<>> /\ pc = "plan"
       \/ /\ source = "tasks" /\ text = "" /\ pc = "run"
          /\ \E S \in SUBSET (1..MaxTasks) : \E deps \in [S -> depSets] :
                \E descending \in BOOLEAN : tasks = Plan(S, deps, descending)
    /\ remaining = <<>>
    /\ completed = {}
    /\ results = <<>>
    /\ handles = <<>>
    /\ thread = <<>>
    /\ wave = 0
    /\ blocked = {}
    /\ final = <<>>
    /\ CmdIdle /\ WatchIdle /\ StoreIdle

Init == InitWith(DepSets)

\* main.rs:408: let tasks = architect_with_dependencies(&input)
PlanTasks ==
    /\ pc = "plan"
    /\ tasks' = architect_with_dependencies(text)
    /\ pc' = "run"
    /\ UNCHANGED <<source, text, remaining, completed, results, handles,
                   thread, wave, blocked, final>>
    /\ UNCHANGED <<cmdVars, watchVars, storeVars>>

\* swarm.rs:74-80: entry of run_parallel_workers
RunSwarm ==
    /\ pc = "run"
    /\ remaining' = Collect(tasks)
    /\ completed' = {}
    /\ results' = <<>>
    /\ pc' = "loop"
    /\ UNCHANGED <<source, text, tasks, handles, thread, wave, blocked, final>>
    /\ UNCHANGED <<cmdVars, watchVars, storeVars>>

\* swarm.rs:82,114: the loop ends with remaining empty; self_correction(results) is returned
Return ==
    /\ pc = "loop"
    /\ DOMAIN remaining = {}
    /\ final' = self_correction(results)
    /\ pc' = "done"
    /\ UNCHANGED <<source, text, tasks, remaining, completed, results,
                   handles, thread, wave, blocked>>
    /\ UNCHANGED <<cmdVars, watchVars, storeVars>>

\* swarm.rs:89-98,114: nothing is ready: every remaining task is reported
\* blocked, the loop is left and self_correction(results) is returned
Blocked ==
    /\ pc = "loop"
    /\ DOMAIN remaining # {}
    /\ Ready(remaining, completed) = {}
    /\ results' = results \o BlockedResults(remaining)
    /\ blocked' = DOMAIN remaining
    /\ final' = self_correction(results')
    /\ pc' = "done"
    /\ UNCHANGED <<source, text, tasks, remaining, completed, handles,
                   thread, wave>>
    /\ UNCHANGED <<cmdVars, watchVars, storeVars>>

\* swarm.rs:83-87,100-104: the ready tasks leave remaining and one thread is
\* spawned per ready task, in ascending id order
Dispatch ==
    /\ pc = "loop"
    /\ DOMAIN remaining # {}
    /\ LET ready == Ready(remaining, completed) IN
       /\ ready # {}
       /\ remaining' = Remove(remaining, ready)
       /\ handles' = Ascending(ready)
       /\ wave' = wave + 1
       /\ thread' = thread @@
              [id \in ready |->
                  [st |-> "running", task |-> remaining[id], wave |-> wave + 1,
                   seen |-> Len(results), result |-> NoResult]]
    /\ pc' = "join"
    /\ UNCHANGED <<source, text, tasks, completed, results, blocked, final>>
    /\ UNCHANGED <<cmdVars, watchVars, storeVars>>

\* a worker that pushes its result to a results list shared with the
\* orchestrating thread
WorkerReturnPushing(id) ==
    /\ id \in DOMAIN thread
    /\ thread[id].st = "running"
    /\ thread' = [thread EXCEPT ![id].st = "finished",
                                ![id].result = run_task(thread[id].task)]
    /\ results' = Append(results, run_task(thread[id].task))
    /\ UNCHANGED <<source, text, tasks, pc, remaining, completed,
                   handles, wave, blocked, final>>
    /\ UNCHANGED <<cmdVars, watchVars, storeVars>>

\* swarm.rs:103,148-160: a spawned thread runs run_task on the Task it owns
WorkerReturn(id) ==
    /\ id \in DOMAIN thread
    /\ thread[id].st = "running"
    /\ thread' = [thread EXCEPT ![id].st = "finished",
                                ![id].result = run_task(thread[id].task)]
    /\ UNCHANGED <<source, text, tasks, pc, remaining, completed, results,
                   handles, wave, blocked, final>>
    /\ UNCHANGED <<cmdVars, watchVars, storeVars>>

\* a join that does not count a task whose worker reported a failure as
\* completed
JoinFailedNotCompleted ==
    /\ pc = "join"
    /\ \E i \in JoinNext(handles, thread) :
          LET id == handles[i]
              result == thread[id].result
          IN /\ completed' = IF Contains(result.summary, "failed")
                             THEN completed
                             ELSE completed \cup {result.id}
             /\ results' = PushResult(results, result)
             /\ thread' = [thread EXCEPT ![id].st = "joined"]
             /\ handles' = [k \in 1..(Len(handles) - 1) |->
                               IF k < i THEN handles[k] ELSE handles[k + 1]]
    /\ pc' = AfterJoin(handles)
    /\ UNCHANGED <<source, text, tasks, remaining, wave, blocked, final>>
    /\ UNCHANGED <<cmdVars, watchVars, storeVars>>

\* swarm.rs:106-111: the next handle is joined; its result goes to completed
\* and results; after the last handle the loop condition is tested again
Join ==
    /\ pc = "join"
    /\ \E i \in JoinNext(handles, thread) :
          LET id == handles[i]
              result == thread[id].result
          IN /\ completed' = completed \cup {result.id}
             /\ results' = PushResult(results, result)
             /\ thread' = [thread EXCEPT ![id].st = "joined"]
             /\ handles' = [k \in 1..(Len(handles) - 1) |->
                               IF k < i THEN handles[k] ELSE handles[k + 1]]
    /\ pc' = AfterJoin(handles)
    /\ UNCHANGED <<source, text, tasks, remaining, wave, blocked, final>>
    /\ UNCHANGED <<cmdVars, watchVars, storeVars>>

Next ==
    \/ PlanTasks
    \/ RunSwarm
    \/ Return
    \/ Blocked
    \/ Dispatch
    \/ \E id \in DOMAIN thread : WorkerReturn(id)
    \/ Join

Spec == Init /\ [][Next]_vars

\* once run_parallel_workers is called, the orchestrating thread keeps
\* running and every spawned worker returns (run_task sleeps 50 ms and cannot
\* fail)
FairSpec ==
    /\ InitWith(DepSetsUpTo(MaxFairDeps))
    /\ [][Next]_vars
    /\ WF_vars(RunSwarm) /\ WF_vars(Return)
    /\ WF_vars(Blocked) /\ WF_vars(Dispatch) /\ WF_vars(Join)
    /\ WF_vars(\E id \in DOMAIN thread : WorkerReturn(id))

----------------------------------------------------------------------------
(* Helpers of the properties *)

\* positions of the results of task id in rs
ResultsOf(rs, id) == {k \in DOMAIN rs : rs[k].id = id}

TaskIds == {tasks[i].id : i \in DOMAIN tasks}

\* the worker threads that have been spawned and have returned
Returned == {id \in DOMAIN thread : thread[id].st \in {"finished", "joined"}}

----------------------------------------------------------------------------
(* C1: one TaskResult per planned Task *)

\* C1: when run_parallel_workers has returned, the returned list is as long
\* as the Task list and every task id has exactly one result in it, whether
\* the task was executed by a worker or reported blocked.
C1_OneResultPerTask ==
    pc = "done" =>
        /\ Len(final) = Len(tasks)
        /\ \A i \in DOMAIN tasks :
              Cardinality(ResultsOf(final, tasks[i].id)) = 1
        /\ \A k \in DOMAIN final : final[k].id \in TaskIds

\* a finished run with executed tasks, blocked tasks and a dependency on an
\* id of no task
C1_Witness ==
    /\ pc = "done"
    /\ completed # {}
    /\ blocked # {}
    /\ \E i \in DOMAIN tasks : \E dep \in tasks[i].dependencies :
          dep \notin TaskIds

----------------------------------------------------------------------------
(* C2: a task starts only after its dependencies completed *)

\* C2: for every spawned task A and every dependency B of A, B was joined
\* (B is in completed) and B's result was already in results when A was
\* dispatched.
C2_DependenciesFirst ==
    \A a \in DOMAIN thread : \A b \in thread[a].task.dependencies :
        /\ b \in completed
        /\ b \in DOMAIN thread /\ thread[b].st = "joined"
        /\ \E k \in 1..thread[a].seen : results[k].id = b

\* a task with two dependencies is running
C2_Witness ==
    \E a \in DOMAIN thread :
        /\ thread[a].st = "running"
        /\ Cardinality(thread[a].task.dependencies \ {a}) >= 2

----------------------------------------------------------------------------
(* C3: results are ordered by wave *)

\* the wave numbers of the worker results of rs are non-decreasing
WaveOrdered(rs) ==
    \A i, j \in DOMAIN rs :
        (i < j /\ rs[i].id \in DOMAIN thread /\ rs[j].id \in DOMAIN thread)
            => thread[rs[i].id].wave <= thread[rs[j].id].wave

\* C3: in results at every moment, and in the returned list, every result of
\* wave k precedes every result of wave k+1.
C3_WaveOrder ==
    /\ WaveOrdered(results)
    /\ pc = "done" => WaveOrdered(final)

\* a finished run of two waves, the first with two tasks
C3_Witness ==
    /\ pc = "done"
    /\ wave >= 2
    /\ Cardinality({id \in DOMAIN thread : thread[id].wave = 1}) >= 2

----------------------------------------------------------------------------
(* C4: self-correction applied to its own output *)

\* C4 as claimed: self_correction(self_correction(r)) = self_correction(r);
\* final is self_correction(results).
C4_Idempotent == pc = "done" => self_correction(final) = final

\* C4 amended: a second pass keeps the length, every id and every worker, and
\* every result whose raw summary has no "failed"; a result whose raw summary
\* contains "failed" is rewritten once more, the prefix being put before the
\* already rewritten summary.
C4_SecondPassPrefixesAgain ==
    pc = "done" =>
        LET twice == self_correction(final) IN
        /\ Len(twice) = Len(final)
        /\ \A k \in DOMAIN final :
              /\ twice[k].id = final[k].id
              /\ twice[k].worker = final[k].worker
              /\ IF Contains(results[k].summary, "failed")
                 THEN /\ final[k].worker = "self-corrector"
                      /\ twice[k].summary =
                            "Retry succeeded after adjustment: " \o final[k].summary
                      /\ twice[k] # final[k]
                 ELSE twice[k] = final[k]

\* a returned list with a rewritten worker result, a rewritten blocked result
\* and an untouched result
C4_Witness ==
    /\ pc = "done"
    /\ \E k \in DOMAIN final :
          results[k].worker = "scheduler" /\ final[k].worker = "self-corrector"
    /\ \E k \in DOMAIN final :
          results[k].worker # "scheduler" /\ final[k].worker = "self-corrector"
    /\ \E k \in DOMAIN final : final[k] = results[k]

----------------------------------------------------------------------------
(* C5: "<X> after <Y>" with no task described Y *)

\* the description reads "<X> after <Y>" or "<X> depends on <Y>" and Y is the
\* description of no task of ts
Dangling(description, ts) ==
    \E phrase \in {" after ", " depends on "} :
        \E p \in 2..(Len(description) - Len(phrase)) :
            /\ SubSeq(description, p, p + Len(phrase) - 1) = phrase
            /\ LET y == SubSeq(description, p + Len(phrase), Len(description))
               IN \A j \in DOMAIN ts :
                     to_lowercase(ts[j].description) # to_lowercase(y)

\* C5 as claimed: such a task of a planned text is never completed and is
\* reported with worker "scheduler" and "Blocked by dependencies: ...".
C5_DanglingBlocked ==
    (pc = "done" /\ source = "text") =>
        \A i \in DOMAIN tasks :
            Dangling(tasks[i].description, tasks) =>
                /\ tasks[i].id \notin completed
                /\ \E k \in DOMAIN final :
                      final[k] = TaskResult(tasks[i].id,
                          "Blocked by dependencies: " \o tasks[i].description,
                          "scheduler")

\* C5 amended: the phrase adds no dependency, so the task is not blocked by
\* it: the task is executed by a worker and completed, and its one result is
\* the (self-corrected) result of run_task, never a "scheduler" result; the
\* single line "X after Y" gives "general completed: X after Y" by "general".
C5_DanglingExecuted ==
    /\ (pc = "done" /\ source = "text") =>
          \A i \in DOMAIN tasks :
              Dangling(tasks[i].description, tasks) =>
                  /\ tasks[i].id \in completed
                  /\ tasks[i].id \notin blocked
                  /\ \A k \in ResultsOf(final, tasks[i].id) :
                        /\ final[k] = Correct(run_task(tasks[i]))
                        /\ final[k].worker # "scheduler"
                  /\ Cardinality(ResultsOf(final, tasks[i].id)) = 1
    /\ (pc = "done" /\ source = "text" /\ text = "X after Y") =>
          /\ tasks = <<Task(1, "X after Y", {})>>
          /\ final = <<TaskResult(1, "general completed: X after Y", "general")>>

\* the run of the single line "X after Y" has returned
C5_Witness ==
    /\ pc = "done" /\ source = "text" /\ text = "X after Y"
    /\ Dangling(tasks[1].description, tasks)
    /\ 1 \in completed

----------------------------------------------------------------------------
(* C6: simulated failures are rewritten by the self-corrector *)

\* C6: a worker that ran a task whose lowercased description contains "fail"
\* returns "<worker> failed: <description>", and the returned list has for
\* that id worker "self-corrector" and "Retry succeeded after adjustment: "
\* followed by that raw summary; "Implement fail case" is run by "general".
C6_FailureCorrected ==
    /\ \A id \in Returned :
          LET d == thread[id].task.description
              raw == pick_worker(d) \o " failed: " \o d
          IN Contains(to_lowercase(d), "fail") =>
                /\ thread[id].result = TaskResult(id, raw, pick_worker(d))
                /\ pc = "done" =>
                      /\ \E k \in DOMAIN final :
                            final[k] = TaskResult(id,
                                "Retry succeeded after adjustment: " \o raw,
                                "self-corrector")
                      /\ Cardinality(ResultsOf(final, id)) = 1
    /\ (pc = "done" /\ source = "text" /\ text = "Implement fail case") =>
          /\ results = <<TaskResult(1, "general failed: Implement fail case",
                                    "general")>>
          /\ final = <<TaskResult(1,
                "Retry succeeded after adjustment: general failed: Implement fail case",
                "self-corrector")>>

\* a finished run that executed a task whose description has "FAIL" in capitals
C6_Witness ==
    /\ pc = "done"
    /\ \E id \in Returned :
          /\ Contains(to_lowercase(thread[id].task.description), "fail")
          /\ ~Contains(thread[id].task.description, "fail")

----------------------------------------------------------------------------
(* C7: the two-line backend/frontend plan *)

BackendFrontend ==
    "Build backend api\nBuild frontend ui after Build backend api"

\* the parts of C7 that do not name the worker of task 1
C7_Rest ==
    /\ tasks = <<Task(1, "Build backend api", {}),
                 Task(2, "Build frontend ui after Build backend api", {1})>>
    /\ Len(final) = 2
    /\ final[1].id = 1 /\ final[2].id = 2
    /\ final[2].worker = "frontend"
    /\ Contains(final[1].summary, "completed")
    /\ Contains(final[2].summary, "completed")

\* C7 as claimed: task 1 resolves to worker "backend", task 2 depends on {1}
\* and resolves to "frontend", and both summaries contain "completed".
C7_BackendThenFrontend ==
    (pc = "done" /\ source = "text" /\ text = BackendFrontend) =>
        C7_Rest /\ final[1].worker = "backend"

\* C7 amended: task 1 resolves to worker "frontend", because "Build" contains
\* "ui" and the frontend rule is tested first; task 2 depends on {1} and
\* resolves to "frontend", and both summaries contain "completed".
C7_FrontendTwice ==
    (pc = "done" /\ source = "text" /\ text = BackendFrontend) =>
        /\ C7_Rest
        /\ final[1].worker = "frontend"
        /\ final[1].summary = "frontend completed: Build backend api"

\* the run of the two-line plan has returned after two waves
C7_Witness ==
    /\ pc = "done" /\ source = "text" /\ text = BackendFrontend
    /\ wave = 2 /\ completed = {1, 2}

----------------------------------------------------------------------------
(* C8: blank input *)

IsBlank(s) == \A i \in 1..Len(s) : IsWhitespace(CharAt(s, i))

\* C8: a text of whitespace only is planned to the empty Task list, and the
\* run of an empty Task list spawns no worker, does not take the Blocked path
\* and returns the empty list.
C8_BlankInput ==
    /\ (source = "text" /\ IsBlank(text) /\ pc # "plan") => tasks = <<>>
    /\ tasks = <<>> =>
          /\ DOMAIN thread = {} /\ wave = 0 /\ handles = <<>>
          /\ blocked = {} /\ results = <<>>
          /\ pc \notin {"join"}
          /\ final = <<>>

\* the run of a text of blank lines has returned
C8_Witness ==
    /\ pc = "done" /\ source = "text"
    /\ IsBlank(text) /\ Len(Lines(text)) >= 2

----------------------------------------------------------------------------
(* C9: the report does not depend on the interleaving *)

\* the raw results when the waves are run one task after the other
RECURSIVE Waves(_, _, _)
Waves(rem, comp, rs) ==
    IF DOMAIN rem = {} THEN rs
    ELSE LET ready == Ready(rem, comp)
             order == Ascending(ready)
         IN IF ready = {} THEN rs \o BlockedResults(rem)
            ELSE Waves(Remove(rem, ready), comp \cup ready,
                       rs \o [i \in DOMAIN order |-> run_task(rem[order[i]])])

\* C9: whatever the order the workers of a wave finish in, the returned list
\* is the one function of the Task list: ids, summaries, workers and order.
C9_Deterministic ==
    pc = "done" => final = self_correction(Waves(Collect(tasks), {}, <<>>))

\* between two joins of a wave of two tasks, the later spawned one has
\* finished and the earlier spawned one is still running
C9_Witness ==
    /\ pc = "join" /\ Len(handles) >= 2
    /\ thread[handles[1]].st = "running"
    /\ thread[handles[2]].st = "finished"

----------------------------------------------------------------------------
(* C10: termination *)

\* C10: every call of run_parallel_workers returns, and a step of the loop head either spawns a
\* non-empty wave that strictly shrinks remaining, or, when remaining is not
\* empty and nothing is ready, reports the blocked tasks and leaves the loop,
\* or leaves the loop with remaining empty.
C10_Terminates ==
    /\ (pc = "run") ~> (pc = "done")
    /\ [][pc = "loop" =>
            \/ /\ pc' = "join" /\ handles' # <<>>
               /\ DOMAIN remaining' \subseteq DOMAIN remaining
               /\ DOMAIN remaining' # DOMAIN remaining
               /\ Cardinality(DOMAIN remaining') + Len(handles')
                     = Cardinality(DOMAIN remaining)
            \/ /\ pc' = "done" /\ DOMAIN remaining # {}
               /\ Ready(remaining, completed) = {}
               /\ blocked' = DOMAIN remaining
            \/ /\ pc' = "done" /\ DOMAIN remaining = {}]_vars

\* a run of three waves and a run that left the loop by the Blocked path
\* after a wave have returned
C10_Witness ==
    /\ pc = "done"
    /\ \/ wave >= 3 /\ DOMAIN remaining = {}
       \/ wave >= 1 /\ blocked # {}

----------------------------------------------------------------------------
(* `nexus swarm plan` and `nexus swarm run`: the swarm event log           *)

\* the readings of the system clock (seconds since the epoch, swarm.rs:141-146)
MaxTime == 2

\* swarm.rs:20-25
SwarmEvent(timestamp, event, detail) ==
    [timestamp |-> timestamp, event |-> event, detail |-> detail]

\* swarm.rs:117-127; now is the one reading of now_ts() at line 118
plan_events(ts, now) ==
    [i \in DOMAIN ts |->
        SwarmEvent(now, "planned",
                   "[" \o ToString(ts[i].id) \o "] " \o ts[i].description)]

\* the worker is left out of the detail
result_events_no_worker(rs, now) ==
    [i \in DOMAIN rs |->
        SwarmEvent(now, "completed",
                   "[" \o ToString(rs[i].id) \o "] " \o rs[i].summary)]

\* swarm.rs:129-139; now is the one reading of now_ts() at line 130
result_events(rs, now) ==
    [i \in DOMAIN rs |->
        SwarmEvent(now, "completed",
                   "[" \o ToString(rs[i].id) \o "] " \o rs[i].summary
                       \o " (" \o rs[i].worker \o ")")]

\* swarm.rs:73-115 as a function of the Task list: the waves in order, each
\* joined in spawn order, then self_correction
run_parallel_workers(ts) == self_correction(Waves(Collect(ts), {}, <<>>))

\* the bytes serde_json::to_string_pretty writes for the first n events
\* (storage.rs:251): per event the braces, the three keys and a ten-digit
\* timestamp, plus the two strings
RECURSIVE BytesUpTo(_, _)
BytesUpTo(events, n) ==
    IF n = 0 THEN 2
    ELSE BytesUpTo(events, n - 1) + 72 + Len(events[n].event)
                                       + Len(events[n].detail)

Bytes(events) == BytesUpTo(events, Len(events))

\* the events a reader finds in the log
Persisted(f) == IF f.st = "ok" THEN f.events ELSE <<>>

\* the outcome of a fallible call
Ok(value) == [ok |-> TRUE, value |-> value]
Err == [ok |-> FALSE, value |-> <<>>]

\* Result<Vec<SwarmEvent>>::unwrap_or_default (main.rs:398,411)
unwrap_or_default(r) == IF r.ok THEN r.value ELSE <<>>

\* storage.rs:239-245; readable is the outcome of read_to_string at line 243.
\* Content that is not the JSON of a Vec<SwarmEvent> (a file another writer
\* has truncated, or bytes of two writes) parses to the default, line 244.
load_swarm_events(f, readable) ==
    IF f.st = "absent" THEN Ok(<<>>)
    ELSE IF ~readable THEN Err
    ELSE IF f.st = "ok" THEN Ok(f.events)
    ELSE Ok(<<>>)

\* File::create of std::fs::write (storage.rs:252): the file exists and is empty
Truncated == [st |-> "partial", events |-> <<>>]

\* every write re-reads the log and appends to what it finds
WrittenMerged(f, events, own) ==
    [st |-> "ok", events |-> (IF f.st = "ok" THEN f.events ELSE <<>>) \o own]

\* write_all of std::fs::write (storage.rs:252) at offset 0 of the file this
\* writer truncated: the bytes replace what is there, and the tail of a longer
\* content that another writer wrote in between stays behind them
Written(f, events, own) ==
    IF f.st \in {"ok", "mixed"} /\ Bytes(f.events) > Bytes(events)
    THEN [st |-> "mixed", events |-> f.events]
    ELSE [st |-> "ok", events |-> events]

\* the error of swarm_events_path is propagated with `?`
IfLetOkPropagated(ok) == IF ok THEN "load" ELSE "abort"

\* main.rs:397,410: if let Ok(path) = swarm_events_path() { .. }
IfLetOk(ok) == IF ok THEN "load" ELSE "print"

\* main.rs:402-405: the lines `swarm plan` prints
PlanLines(ts) ==
    <<"Planned " \o ToString(Len(ts)) \o " task(s).">>
    \o [i \in DOMAIN ts |->
           "[" \o ToString(ts[i].id) \o "] " \o ts[i].description]

\* main.rs:415-417: the lines `swarm run` prints
RunLines(rs) ==
    [i \in DOMAIN rs |-> "[" \o ToString(rs[i].id) \o "] " \o rs[i].summary]

\* the two invocations that may run at the same time
Writers == {1, 2}

\* the input texts of the commands
CmdTexts == {"a", "b fail\nc after b fail"}

\* a Task list with a task that is blocked and self-corrected
CmdTasks ==
    <<Task(1, "retry failed test", {2}), Task(3, "Build api", {})>>

\* the locals of a command before it starts
Command(kind, input, ts) ==
    [kind |-> kind, input |-> input, tasks |-> ts, results |-> <<>>,
     pc |-> "start", before |-> <<>>, now |-> 0, loaded |-> <<>>,
     own |-> <<>>, events |-> <<>>, saved |-> "no", printed |-> <<>>,
     exit |-> "running"]

\* `swarm plan <text>`, `swarm run <text>`, and the same recording of the
\* results of run_parallel_workers on a Task list
Commands ==
    {Command(kind, input, <<>>) : kind \in {"plan", "run"}, input \in CmdTexts}
    \cup {Command("tasks", "", CmdTasks)}

\* the log before the commands: none, or one holding an earlier event
OldEvents == <<SwarmEvent(0, "planned", "[1] old")>>

CmdInit ==
    /\ cmd \in [Writers -> Commands]
    /\ file \in {[st |-> "absent", events |-> <<>>],
                 [st |-> "ok", events |-> OldEvents]}
    /\ SwarmIdle /\ WatchIdle /\ StoreIdle

\* main.rs:396-397 and 408-410: plan (and run) the input, resolve the path
StartCmd(w) ==
    /\ cmd[w].pc = "start"
    /\ \E path_ok \in BOOLEAN :
        LET c == cmd[w]
            ts == IF c.kind = "plan" THEN architect_plan(c.input)
                  ELSE IF c.kind = "run"
                       THEN architect_with_dependencies(c.input)
                       ELSE c.tasks
            rs == IF c.kind = "plan" THEN <<>> ELSE run_parallel_workers(ts)
        IN cmd' = [cmd EXCEPT ![w].tasks = ts, ![w].results = rs,
                              ![w].before = Persisted(file),
                              ![w].pc = IfLetOk(path_ok)]
    /\ UNCHANGED <<file, swarmVars, watchVars, storeVars>>

\* main.rs:398-399 and 411-412: load the log, extend it by the new events
LoadCmd(w) ==
    /\ cmd[w].pc = "load"
    /\ \E readable \in BOOLEAN : \E now \in 1..MaxTime :
        LET c == cmd[w]
            loaded == unwrap_or_default(load_swarm_events(file, readable))
            own == IF c.kind = "plan" THEN plan_events(c.tasks, now)
                   ELSE result_events(c.results, now)
        IN cmd' = [cmd EXCEPT ![w].loaded = loaded, ![w].own = own,
                              ![w].now = now,
                              ![w].events = loaded \o own, ![w].pc = "save"]
    /\ UNCHANGED <<file, swarmVars, watchVars, storeVars>>

\* main.rs:400,413 with storage.rs:248-252: create_dir_all or the opening of
\* the file fails; `let _ =` drops the error
SaveFail(w) ==
    /\ cmd[w].pc = "save"
    /\ cmd' = [cmd EXCEPT ![w].saved = "failed", ![w].pc = "print"]
    /\ UNCHANGED <<file, swarmVars, watchVars, storeVars>>

\* storage.rs:252: std::fs::write opens the file, which truncates it
SaveTruncate(w) ==
    /\ cmd[w].pc = "save"
    /\ file' = Truncated
    /\ cmd' = [cmd EXCEPT ![w].pc = "write"]
    /\ UNCHANGED <<swarmVars, watchVars, storeVars>>

\* storage.rs:252-253: std::fs::write writes the bytes; Ok(())
SaveWrite(w) ==
    /\ cmd[w].pc = "write"
    /\ file' = Written(file, cmd[w].events, cmd[w].own)
    /\ cmd' = [cmd EXCEPT ![w].saved = "ok", ![w].pc = "print"]
    /\ UNCHANGED <<swarmVars, watchVars, storeVars>>

\* main.rs:402-405 and 415-417: print the report; the arm ends, exit status 0
PrintCmd(w) ==
    /\ cmd[w].pc = "print"
    /\ cmd' = [cmd EXCEPT
                 ![w].printed = IF cmd[w].kind = "plan"
                                THEN PlanLines(cmd[w].tasks)
                                ELSE RunLines(cmd[w].results),
                 ![w].exit = "ok", ![w].pc = "exit"]
    /\ UNCHANGED <<file, swarmVars, watchVars, storeVars>>

CmdNext ==
    \/ \E w \in Writers : StartCmd(w)
    \/ \E w \in Writers : LoadCmd(w)
    \/ \E w \in Writers : SaveFail(w)
    \/ \E w \in Writers : SaveTruncate(w)
    \/ \E w \in Writers : SaveWrite(w)
    \/ \E w \in Writers : PrintCmd(w)

CmdSpec == CmdInit /\ [][CmdNext]_vars

----------------------------------------------------------------------------
(* C11..C14: the event log under `swarm plan` and `swarm run` *)

IsPrefix(s, t) == Len(s) <= Len(t) /\ \A i \in DOMAIN s : s[i] = t[i]

\* the step in which writer w completes its save
Saves(w) == cmd[w].pc = "write" /\ cmd'[w].pc = "print"

\* C11: a save is no merge. The log a writer leaves is the Vec it loaded
\* earlier extended by its own events, whatever has been saved since that
\* load (or, behind the bytes of a shorter write, the other writer's bytes
\* stay and the log no longer parses); so with two writers the later save
\* drops the events the earlier one appended after the later one's load.
C11_LastWriterWins ==
    [][\A w \in Writers : Saves(w) =>
          /\ cmd'[w].saved = "ok"
          /\ file'.st \in {"ok", "mixed"}
          /\ file'.st = "ok" => file'.events = cmd[w].loaded \o cmd[w].own
          /\ file'.st = "mixed" => file'.events = file.events]_vars

\* both commands loaded the log that was there, both saves succeeded, and
\* none of the events of writer 1 is in the log
C11_Witness ==
    /\ \A w \in Writers :
          /\ cmd[w].saved = "ok" /\ cmd[w].own # <<>>
          /\ cmd[w].loaded = OldEvents
    /\ file = [st |-> "ok", events |-> OldEvents \o cmd[2].own]
    /\ \A i \in DOMAIN file.events : \A j \in DOMAIN cmd[1].own :
          file.events[i] # cmd[1].own[j]

\* C12: a `swarm run` whose path is not resolved or whose save fails goes on
\* to print: it never leaves the arm early, its results stay the ones
\* run_parallel_workers returned, and it ends with every result printed in
\* order and exit status 0.
C12_PersistenceFailureIgnored ==
    [][\A w \in Writers : cmd[w].kind = "run" =>
          /\ cmd'[w].pc \in {"start", "load", "save", "write", "print", "exit"}
          /\ cmd[w].pc = "start" /\ cmd'[w].pc # "start" =>
                /\ cmd'[w].pc \in {"load", "print"}
                /\ cmd'[w].results = run_parallel_workers(
                       architect_with_dependencies(cmd[w].input))
          /\ cmd[w].pc # "start" => cmd'[w].results = cmd[w].results
          /\ cmd[w].pc = "save" /\ cmd'[w].pc # "save" =>
                cmd'[w].pc \in {"write", "print"}
          /\ cmd[w].pc = "print" /\ cmd'[w].pc # "print" =>
                /\ cmd'[w].pc = "exit" /\ cmd'[w].exit = "ok"
                /\ Len(cmd'[w].printed) = Len(cmd[w].results)
                /\ \A i \in DOMAIN cmd[w].results :
                      cmd'[w].printed[i] =
                          "[" \o ToString(cmd[w].results[i].id) \o "] "
                              \o cmd[w].results[i].summary]_vars

\* two `swarm run` have ended with their reports printed: the save of the
\* first failed, the path of the second was not resolved
C12_Witness ==
    /\ \A w \in Writers :
          /\ cmd[w].kind = "run" /\ cmd[w].pc = "exit" /\ cmd[w].exit = "ok"
          /\ Len(cmd[w].printed) = 2
    /\ cmd[1].saved = "failed"
    /\ cmd[2].saved = "no" /\ cmd[2].events = <<>>
    /\ file.events = OldEvents

\* C13 as stated: a save that succeeds leaves the events that were persisted
\* when its command started as a prefix of the persisted log.
C13_AppendOnly ==
    [][\A w \in Writers : Saves(w) =>
          IsPrefix(cmd[w].before, Persisted(file'))]_vars

\* C14: the events of a command are one per task (plan) or per result (run),
\* in that order, "planned" with detail "[id] description" or "completed" with
\* detail "[id] summary (worker)", all with the one timestamp of the call.
C14_EventPerElement ==
    \A w \in Writers : cmd[w].pc \in {"save", "write"} \/ cmd[w].saved # "no" =>
        LET c == cmd[w]
            elems == IF c.kind = "plan" THEN c.tasks ELSE c.results
        IN /\ Len(c.own) = Len(elems)
           /\ \A i \in DOMAIN elems :
                 /\ c.own[i].timestamp = c.now
                 /\ c.own[i].event =
                       (IF c.kind = "plan" THEN "planned" ELSE "completed")
                 /\ c.own[i].detail =
                       "[" \o ToString(elems[i].id) \o "] "
                       \o (IF c.kind = "plan" THEN elems[i].description
                           ELSE elems[i].summary \o " (" \o elems[i].worker
                                                 \o ")")

\* one command has recorded a blocked, self-corrected result after an
\* executed one, the other the plan of two tasks
C14_Witness ==
    /\ cmd[1].kind = "tasks" /\ cmd[1].pc = "save"
    /\ Len(cmd[1].own) = 2
    /\ cmd[1].own[2].detail =
          "[1] Retry succeeded after adjustment: Blocked by dependencies: "
          \o "retry failed test (self-corrector)"
    /\ cmd[2].kind = "plan" /\ cmd[2].pc = "save"
    /\ Len(cmd[2].own) = 2
    /\ cmd[2].own[2].detail = "[2] c after b fail"

----------------------------------------------------------------------------
(* C15, C19, C20: the waves of run_parallel_workers *)

Running == {id \in DOMAIN thread : thread[id].st = "running"}

\* C15: while a spawned thread has not finished, the orchestrating thread
\* stays in the join loop of that thread's wave: it does not return, it
\* dispatches no wave and it reports no blocked task, whatever the other
\* threads of the wave have done.
C15_HungUnitStalls ==
    [][\A id \in Running : thread'[id].st = "running" =>
          /\ pc = "join" /\ pc' = "join"
          /\ wave' = wave /\ thread[id].wave = wave
          /\ DOMAIN thread' = DOMAIN thread
          /\ blocked' = {} /\ final' = <<>>]_vars

\* one thread of a wave is still running, the other threads of the wave have
\* been joined, and tasks are waiting for a later wave
C15_Witness ==
    /\ pc = "join" /\ Len(handles) = 1
    /\ Running = {handles[1]}
    /\ \E id \in DOMAIN thread :
          thread[id].wave = wave /\ thread[id].st = "joined"
    /\ DOMAIN remaining # {}

\* C19: the threads that are not joined are the handles of the last wave;
\* at the loop head, where the next Ready set is computed, every thread
\* spawned so far is joined and its result is in completed and in results;
\* a wave is dispatched only then.
C19_Barrier ==
    [][/\ \A id \in DOMAIN thread' :
             thread'[id].st # "joined" =>
                /\ thread'[id].wave = wave'
                /\ \E i \in DOMAIN handles' : handles'[i] = id
       /\ pc' \in {"loop", "done"} =>
             \A id \in DOMAIN thread' :
                /\ thread'[id].st = "joined"
                /\ id \in completed'
                /\ \E i \in DOMAIN results' :
                      results'[i] = run_task(thread'[id].task)
       /\ wave' # wave =>
             /\ pc = "loop" /\ wave' = wave + 1
             /\ \A id \in DOMAIN thread : thread[id].st = "joined"]_vars

\* the second wave is running after the two threads of the first were joined
C19_Witness ==
    /\ wave = 2 /\ pc = "join"
    /\ Cardinality({id \in DOMAIN thread : thread[id].wave = 1}) = 2
    /\ \A id \in DOMAIN thread : thread[id].wave = 1 => thread[id].st = "joined"
    /\ \E id \in Running : thread[id].wave = 2

\* C20: the threads a dispatch spawns are the tasks of remaining whose
\* dependencies are all completed, each of them and no other; they leave
\* remaining and the rest stays.
C20_MaximalWave ==
    [][wave' # wave =>
          LET spawned == DOMAIN thread' \ DOMAIN thread
              eligible == {id \in DOMAIN remaining :
                              remaining[id].dependencies \subseteq completed}
          IN /\ spawned = eligible
             /\ {handles'[i] : i \in DOMAIN handles'} = eligible
             /\ Len(handles') = Cardinality(eligible)
             /\ DOMAIN remaining' = DOMAIN remaining \ eligible
             /\ \A id \in DOMAIN remaining' : remaining'[id] = remaining[id]
             /\ \A id \in spawned : thread'[id].task = remaining[id]]_vars

\* a second wave of two tasks has been dispatched, both threads are running
C20_Witness ==
    /\ wave = 2 /\ Len(handles) = 2
    /\ \A i \in DOMAIN handles : thread[handles[i]].st = "running"

----------------------------------------------------------------------------
(* watcher.rs: analyze_log *)

\* the most lines a log of the model has
MaxLines == 3

\* Option<String>
None == [some |-> FALSE, value |-> ""]
Some(value) == [some |-> TRUE, value |-> value]

\* a regex alternation of literals under (?i): one of the words occurs in the
\* line, whatever the case of its letters
MatchesAny(line, words) ==
    \E lower \in {to_lowercase(line)} : \E word \in words : Contains(lower, word)

\* a pattern that looks for the words as they are written
error_re_case_sensitive(line) ==
    \E word \in {"panic", "exception", "error", "traceback", "fatal"} :
        Contains(line, word)

\* watcher.rs:31: (?i)(panic|exception|error|traceback|fatal)
error_re(line) ==
    MatchesAny(line, {"panic", "exception", "error", "traceback", "fatal"})

\* watcher.rs:32: (?i)(stack backtrace:|traceback)
stack_start_re(line) == MatchesAny(line, {"stack backtrace:", "traceback"})

Digits == {"0", "1", "2", "3", "4", "5", "6", "7", "8", "9"}

\* watcher.rs:33: (?i)(at |file "|line \d+)
detail_re(line) ==
    MatchesAny(line, {"at ", "file \""} \cup {"line " \o d : d \in Digits})

\* line.starts_with(' ') || line.starts_with('\t') (watcher.rs:64-65)
Indented(line) == line # "" /\ CharAt(line, 1) \in {" ", "\t"}

\* Vec<String>::join("\n")
RECURSIVE JoinUpTo(_, _)
JoinUpTo(ls, n) ==
    IF n = 0 THEN ""
    ELSE IF n = 1 THEN ls[1]
    ELSE JoinUpTo(ls, n - 1) \o "\n" \o ls[n]

Join_lines(ls) == JoinUpTo(ls, Len(ls))

\* watcher.rs:155-173
auto_investigate(context) ==
    LET Suggest(lower) ==
            IF Contains(lower, "connection refused")
               \/ Contains(lower, "econnrefused")
            THEN Some("Check that the dependent service is running and reachable.")
            ELSE IF Contains(lower, "timeout") \/ Contains(lower, "timed out")
            THEN Some("Inspect network latency or upstream availability.")
            ELSE IF Contains(lower, "permission denied")
                    \/ Contains(lower, "eacces")
            THEN Some("Verify filesystem permissions and execution rights.")
            ELSE IF Contains(lower, "not found")
                    \/ Contains(lower, "no such file")
            THEN Some("Confirm the file path or binary exists in the environment.")
            ELSE IF Contains(lower, "panic")
            THEN Some("Review recent code changes and add guards around unwraps.")
            ELSE None
    IN CHOOSE s \in {Suggest(lower) : lower \in {to_lowercase(context)}} : TRUE

\* watcher.rs:7-15
Incident(src, summary, detail, kind, suggestion) ==
    [source |-> src, summary |-> summary, detail |-> detail, kind |-> kind,
     suggestion |-> suggestion]

\* watcher.rs:46-57, 71-82, 101-112: the incident of the accumulated trace
StackIncident(src, stack_lines) ==
    Incident(src,
             IF stack_lines # <<>> THEN stack_lines[1] ELSE "Stack trace",
             Some(Join_lines(stack_lines)), "stack-trace",
             auto_investigate(Join_lines(stack_lines)))

\* watcher.rs:88-96: the incident of one line
ErrorIncident(src, line) ==
    Incident(src, Trim(line), None, "error", auto_investigate(line))

\* the lines the logs of the model are made of: plain, blank, errors in
\* lower and upper case, the two trace headers, frames and a detail line
LogLines ==
    {"INFO ok", "", "Error: x", "FATAL", "Traceback:", "stack backtrace:",
     "  File \"a\", line 1", "ValueError: boom", "\t0: main", "line 7"}

\* the locals of analyze_log(contents, src) at the head of its loop; i is
\* the position of the iterator contents.lines(); first is the number of the
\* line that opened the trace; origin[k] are the numbers of the first and
\* the last line incident k was made of
Analyze(contents, src) ==
    [pc |-> "loop", contents |-> contents, source |-> src,
     lines |-> Lines(contents), i |-> 1,
     in_stack |-> FALSE, stack_lines |-> <<>>, incidents |-> <<>>,
     first |-> 0, origin |-> <<>>]

WatchInit ==
    /\ \E n \in 0..MaxLines : \E ls \in [1..n -> LogLines] :
          watch = Analyze(Join_lines(ls), "app.log")
    /\ daemon = [pc |-> "idle"]
    /\ SwarmIdle /\ CmdIdle /\ StoreIdle

\* the trace is reported and cleared (watcher.rs:46-59, 71-84)
CloseTrace(w, last) ==
    [w EXCEPT !.incidents = Append(@, StackIncident(w.source, w.stack_lines)),
              !.origin = Append(@, [from |-> w.first, to |-> last]),
              !.stack_lines = <<>>, !.in_stack = FALSE, !.first = 0]

\* watcher.rs:37-98: the body of the loop over contents.lines(), for the
\* line at w.i
AnalyzeLine(w) ==
    LET line == w.lines[w.i]
        trimmed == Trim(line)
        next == [w EXCEPT !.i = @ + 1]
        closed == IF w.in_stack THEN CloseTrace(next, w.i - 1)
                  ELSE next
    IN IF stack_start_re(line)
       THEN [next EXCEPT !.in_stack = TRUE,
                         !.stack_lines = Append(@, trimmed),
                         !.first = IF w.in_stack THEN @ ELSE w.i]
       ELSE IF w.in_stack /\ trimmed = ""
       THEN closed
       ELSE IF w.in_stack
               /\ (detail_re(line) \/ Indented(line) \/ error_re(line))
       THEN [next EXCEPT !.stack_lines = Append(@, trimmed)]
       ELSE IF error_re(line)
       THEN [closed EXCEPT
               !.incidents = Append(@, ErrorIncident(w.source, line)),
               !.origin = Append(@, [from |-> w.i, to |-> w.i])]
       ELSE closed

\* watcher.rs:100-116: after the last line an open trace is reported
AnalyzeEnd(w) ==
    [(IF w.in_stack /\ w.stack_lines # <<>>
      THEN CloseTrace(w, w.i - 1) ELSE w)
     EXCEPT !.pc = "done"]

\* watcher.rs:29-117: the incidents analyze_log returns
RECURSIVE AnalyzeFrom(_)
AnalyzeFrom(w) ==
    IF w.i > Len(w.lines) THEN AnalyzeEnd(w).incidents
    ELSE AnalyzeFrom(AnalyzeLine(w))

analyze_log(contents, src) == AnalyzeFrom(Analyze(contents, src))

\* watcher.rs:37-98: one iteration of the loop over contents.lines()
ReadLine ==
    /\ watch.pc = "loop" /\ watch.i <= Len(watch.lines)
    /\ watch' = AnalyzeLine(watch)
    /\ UNCHANGED daemon
    /\ UNCHANGED <<swarmVars, cmdVars, storeVars>>

\* watcher.rs:100-116: the incidents are returned
ReturnIncidents ==
    /\ watch.pc = "loop" /\ watch.i > Len(watch.lines)
    /\ watch' = AnalyzeEnd(watch)
    /\ UNCHANGED daemon
    /\ UNCHANGED <<swarmVars, cmdVars, storeVars>>

WatchNext == ReadLine \/ ReturnIncidents

WatchSpec == WatchInit /\ [][WatchNext]_vars

----------------------------------------------------------------------------
(* C16, C17: the incidents of analyze_log *)

\* a step of the loop of analyze_log, and the step that returns
ReadsLine == watch.pc = "loop" /\ watch'.pc = "loop"
Returns == watch.pc = "loop" /\ watch'.pc = "done"

\* the incidents a step pushes
Added ==
    SubSeq(watch'.incidents, Len(watch.incidents) + 1, Len(watch'.incidents))

\* a continuation line of a trace: indented, or with a detail or an error
\* pattern, and not blank
Continuation(line) ==
    /\ Trim(line) # ""
    /\ \/ Indented(line)
       \/ MatchesAny(line, {"at ", "file \""} \cup {"line " \o d : d \in Digits})
       \/ MatchesAny(line, {"panic", "exception", "error", "traceback", "fatal"})

\* the one incident of the trace whose lines are stack_lines
IsTraceIncident(incs, stack_lines) ==
    /\ Len(incs) = 1
    /\ incs[1].kind = "stack-trace"
    /\ incs[1].detail.some
    /\ \A k \in DOMAIN stack_lines : Contains(incs[1].detail.value, stack_lines[k])

\* C16 as stated: a stack-start line opens a trace; inside a trace a
\* continuation line is accumulated and pushes no incident, and a blank line,
\* a line that is no continuation line, or the end of the input ends the
\* trace with exactly one "stack-trace" incident whose detail contains every
\* accumulated line, and with no "error" incident.
C16_SingleIncident ==
    [][/\ ReadsLine =>
            LET line == watch.lines[watch.i] IN
            /\ ~watch.in_stack /\ MatchesAny(line, {"stack backtrace:", "traceback"}) =>
                  /\ watch'.in_stack /\ watch'.stack_lines = <<Trim(line)>>
                  /\ Added = <<>>
            /\ watch.in_stack /\ Continuation(line) =>
                  /\ watch'.in_stack
                  /\ watch'.stack_lines = Append(watch.stack_lines, Trim(line))
                  /\ Added = <<>>
            /\ watch.in_stack /\ ~Continuation(line) =>
                  IsTraceIncident(Added, watch.stack_lines)
       /\ Returns /\ watch.in_stack =>
            IsTraceIncident(Added, watch.stack_lines)]_vars

\* C17: a line read while no trace is open and that opens none, or that ends
\* the open trace, pushes exactly one "error" incident when one of the five
\* words occurs in it in any case, and none when not; the incidents are in
\* the order of the lines they are made of.
C17_ErrorPerLine ==
    [][/\ ReadsLine =>
            LET line == watch.lines[watch.i]
                outside ==
                    /\ ~MatchesAny(line, {"stack backtrace:", "traceback"})
                    /\ ~watch.in_stack \/ ~Continuation(line)
                errors == {k \in DOMAIN Added : Added[k].kind = "error"}
            IN outside =>
                 IF MatchesAny(line, {"panic", "exception", "error",
                                      "traceback", "fatal"})
                 THEN /\ Cardinality(errors) = 1
                      /\ \A k \in errors :
                            /\ k = Len(Added)
                            /\ Added[k].summary = Trim(line)
                            /\ Added[k].detail = None
                            /\ Added[k].source = watch.source
                 ELSE errors = {}
       /\ Len(watch'.origin) = Len(watch'.incidents)
       /\ \A k \in DOMAIN watch'.origin :
            /\ watch'.origin[k].from <= watch'.origin[k].to
            /\ k > 1 => watch'.origin[k - 1].to < watch'.origin[k].from]_vars

\* a log of an error line, a plain line and an error line in upper case has
\* been read: two "error" incidents, in that order
C17_Witness ==
    /\ watch.pc = "done" /\ watch.lines = <<"Error: x", "INFO ok", "FATAL">>
    /\ Len(watch.incidents) = 2
    /\ watch.incidents[1] = ErrorIncident("app.log", "Error: x")
    /\ watch.incidents[2].summary = "FATAL"

----------------------------------------------------------------------------
(* vector.rs: LocalVectorStore *)

\* the ids of the documents are doc-1 .. doc-MaxDocs
MaxDocs == 2

\* the most documents one upsert call is given
MaxBatch == 2

\* the largest top_k of a query
MaxTopK == 2

\* vector.rs:4-10; metadata is a BTreeMap<String, String>
VectorDocument(id, content, embedding, metadata) ==
    [id |-> id, content |-> content, embedding |-> embedding,
     metadata |-> metadata]

\* vector.rs:12-17
VectorMatch(id, score, metadata) ==
    [id |-> id, score |-> score, metadata |-> metadata]

\* vector.rs:177-191: a vector of components in [0, 1] that is a hash of the
\* text. The model fixes one vector of two components per text it uses.
embed(content) ==
    IF content = "Hello" THEN <<1, 0>>
    ELSE IF content = "World" THEN <<1, 1>>
    ELSE IF content = "Document" THEN <<0, 1>>
    ELSE <<0, 0>>

Min(a, b) == IF a <= b THEN a ELSE b

\* the sum over the first n pairs of a.iter().zip(b.iter()) of x * y
RECURSIVE DotUpTo(_, _, _)
DotUpTo(a, b, n) ==
    IF n = 0 THEN 0 ELSE DotUpTo(a, b, n - 1) + a[n] * b[n]

\* vector.rs:193-206: the value dot / (sqrt(mag_a) * sqrt(mag_b)) is kept as
\* the pair of dot and mag_a * mag_b; 0.0 when a magnitude is zero
cosine_similarity(a, b) ==
    LET n == Min(Len(a), Len(b))
        a0 == SubSeq(a, 1, n)
        b0 == SubSeq(b, 1, n)
        mag_a == DotUpTo(a0, a0, n)
        mag_b == DotUpTo(b0, b0, n)
    IN IF mag_a = 0 \/ mag_b = 0 THEN [dot |-> 0, mags |-> 1]
       ELSE [dot |-> DotUpTo(a0, b0, n), mags |-> mag_a * mag_b]

\* s.partial_cmp(t) == Some(Greater) for two scores
Greater(s, t) ==
    IF s.dot >= 0 /\ t.dot >= 0
    THEN s.dot * s.dot * t.mags > t.dot * t.dot * s.mags
    ELSE IF s.dot >= 0 THEN TRUE
    ELSE IF t.dot >= 0 THEN FALSE
    ELSE s.dot * s.dot * t.mags < t.dot * t.dot * s.mags

\* matches.sort_by(|a, b| b.score.partial_cmp(&a.score)..) (vector.rs:72):
\* a stable sort, the greater score first
SortByScore(ms) ==
    LET Before(j, i) ==
            \/ Greater(ms[j].score, ms[i].score)
            \/ ~Greater(ms[i].score, ms[j].score) /\ j < i
        Rank(i) == 1 + Cardinality({j \in DOMAIN ms : Before(j, i)})
    IN [r \in DOMAIN ms |-> ms[CHOOSE i \in DOMAIN ms : Rank(i) = r]]

\* Vec::truncate
Truncate(ms, n) == SubSeq(ms, 1, Min(n, Len(ms)))

\* an upsert that pushes every document
UpsertOnePush(ds, doc) == Append(ds, doc)

\* vector.rs:51-55: the first document of the id is replaced, or doc is pushed
UpsertOne(ds, doc) ==
    IF \E i \in DOMAIN ds : ds[i].id = doc.id
    THEN LET first == CHOOSE i \in DOMAIN ds :
                         /\ ds[i].id = doc.id
                         /\ \A j \in DOMAIN ds : ds[j].id = doc.id => i <= j
         IN [ds EXCEPT ![first] = doc]
    ELSE Append(ds, doc)

\* vector.rs:49-58: the documents of the first n of docs are upserted in order
RECURSIVE UpsertUpTo(_, _, _)
UpsertUpTo(ds, docs, n) ==
    IF n = 0 THEN ds ELSE UpsertOne(UpsertUpTo(ds, docs, n - 1), docs[n])

upsert(ds, docs) == UpsertUpTo(ds, docs, Len(docs))

\* vector.rs:60-75
query(ds, q, top_k) ==
    LET query_embedding == embed(q)
        ms == [i \in DOMAIN ds |->
                  VectorMatch(ds[i].id,
                              cosine_similarity(query_embedding, ds[i].embedding),
                              ds[i].metadata)]
    IN Truncate(SortByScore(ms), top_k)

\* the documents a caller makes (main.rs:612-617, e2e.rs:32-37)
Documents ==
    {VectorDocument("doc-" \o ToString(n), content, embed(content), <<>>) :
        n \in 1..MaxDocs, content \in {"Hello", "World"}}

\* the texts of the queries
Queries == {"Hello", "Document"}

\* LocalVectorStore::default() (main.rs:522, e2e.rs:31)
StoreInit ==
    /\ documents = <<>>
    /\ call = [op |-> "new"]
    /\ SwarmIdle /\ CmdIdle /\ WatchIdle

\* store.upsert(docs)
Upsert ==
    /\ \E n \in 1..MaxBatch : \E docs \in [1..n -> Documents] :
          /\ documents' = upsert(documents, docs)
          /\ call' = [op |-> "upsert", docs |-> docs]
    /\ UNCHANGED <<swarmVars, cmdVars, watchVars>>

\* store.query(text, top_k)
Query ==
    /\ \E q \in Queries : \E top_k \in 0..MaxTopK :
          call' = [op |-> "query", query |-> q, top_k |-> top_k,
                   matches |-> query(documents, q, top_k)]
    /\ UNCHANGED <<documents, swarmVars, cmdVars, watchVars>>

StoreNext == Upsert \/ Query

StoreSpec == StoreInit /\ [][StoreNext]_vars

----------------------------------------------------------------------------
(* C18: LocalVectorStore *)

\* the position of the last document of the id in docs
LastOf(docs, id) ==
    CHOOSE i \in DOMAIN docs :
        docs[i].id = id /\ \A j \in DOMAIN docs : docs[j].id = id => j <= i

\* the position of the first document of the id in docs
FirstOf(docs, id) ==
    CHOOSE i \in DOMAIN docs :
        docs[i].id = id /\ \A j \in DOMAIN docs : docs[j].id = id => i <= j

\* C18: the store never holds two documents of one id. An upsert leaves the
\* stored ids at their positions, replaces the document of every id of the
\* batch by the last document of that id and keeps the others, and appends
\* the new ids in the order they come first in the batch. A query returns
\* min(top_k, number of stored documents) matches, of different stored
\* documents, the greater score first; with one stored document and
\* top_k = 1 the match is that document.
C18_OnePerId ==
    [][/\ \A i, j \in DOMAIN documents' :
             documents'[i].id = documents'[j].id => i = j
       /\ call'.op = "upsert" =>
             LET docs == call'.docs
                 ids == {docs[k].id : k \in DOMAIN docs}
                 old == {documents[i].id : i \in DOMAIN documents}
             IN /\ Len(documents') = Len(documents) + Cardinality(ids \ old)
                /\ \A i \in DOMAIN documents :
                      /\ documents'[i].id = documents[i].id
                      /\ documents[i].id \notin ids => documents'[i] = documents[i]
                /\ \A i \in DOMAIN documents' :
                      documents'[i].id \in ids =>
                          documents'[i] = docs[LastOf(docs, documents'[i].id)]
                /\ \A i, j \in DOMAIN documents' :
                      Len(documents) < i /\ i < j =>
                          FirstOf(docs, documents'[i].id)
                              < FirstOf(docs, documents'[j].id)
       /\ call'.op = "query" =>
             LET ms == call'.matches IN
             /\ documents' = documents
             /\ Len(ms) = (IF call'.top_k <= Len(documents)
                           THEN call'.top_k ELSE Len(documents))
             /\ \A k \in DOMAIN ms :
                   \E i \in DOMAIN documents :
                      /\ ms[k].id = documents[i].id
                      /\ ms[k].metadata = documents[i].metadata
             /\ \A k, l \in DOMAIN ms :
                   k < l => /\ ms[k].id # ms[l].id
                            /\ ~Greater(ms[l].score, ms[k].score)
             /\ Len(documents) = 1 /\ call'.top_k = 1 =>
                   ms[1].id = documents[1].id]_vars

\* query("Hello", 1) on a store of the one document "Hello" has
\* returned that document
C18_Witness ==
    /\ Len(documents) = 1 /\ documents[1].content = "Hello"
    /\ call.op = "query" /\ call.query = "Hello" /\ call.top_k = 1
    /\ Len(call.matches) = 1
    /\ call.matches[1].id = documents[1].id

----------------------------------------------------------------------------
(* `swarm run` as main.rs sees it: plan the text, call run_parallel_workers *)

\* the most lines an input text of PlanSpec has
MaxPlanLines == 3

\* the lines the input texts are made of: blank, a task, the same task in
\* another case, tasks that name others, a task that names itself, and tasks
\* for each worker
PlanTextLines ==
    {"", "a", "A ", "b after a", "x after x", "QA fail depends on b after A",
     "build api", "API", "\tfrontend Test"}

\* before `swarm run <text>` plans its text
PlanInit ==
    /\ source = "text" /\ pc = "plan" /\ tasks = <<>>
    /\ \E n \in 0..MaxPlanLines : \E ls \in [1..n -> PlanTextLines] :
          text = Join_lines(ls)
    /\ remaining = <<>> /\ completed = {} /\ results = <<>>
    /\ handles = <<>> /\ thread = <<>> /\ wave = 0
    /\ blocked = {} /\ final = <<>>
    /\ CmdIdle /\ WatchIdle /\ StoreIdle

\* main.rs:409: run_parallel_workers(&tasks) has returned; results keeps the
\* list it had before self_correction (swarm.rs:114)
RunPlanned ==
    /\ pc = "run"
    /\ results' = Waves(Collect(tasks), {}, <<>>)
    /\ final' = run_parallel_workers(tasks)
    /\ pc' = "done"
    /\ UNCHANGED <<source, text, tasks, remaining, completed, handles,
                   thread, wave, blocked>>
    /\ UNCHANGED <<cmdVars, watchVars, storeVars>>

PlanNext == PlanTasks \/ RunPlanned

PlanSpec == PlanInit /\ [][PlanNext]_vars

----------------------------------------------------------------------------
(* C21, C22, C24, C29: the Blocked path, the join order, the frame of
   self_correction and of the workers *)

\* the results a step appends to results
Pushed == SubSeq(results', Len(results) + 1, Len(results'))

\* C21: at the loop head with remaining not empty and no task of it with all
\* its dependencies completed, the step appends exactly one result
\* {id, "Blocked by dependencies: <description>", "scheduler"} per remaining
\* task, spawns no thread, completes nothing and leaves the loop; that step is
\* taken at most once, and once the call has returned nothing happens.
C21_BlockedPath ==
    [][/\ ( /\ pc = "loop" /\ DOMAIN remaining # {}
            /\ \A id \in DOMAIN remaining :
                  ~(remaining[id].dependencies \subseteq completed) ) =>
             /\ Len(results') = Len(results) + Cardinality(DOMAIN remaining)
             /\ \A k \in DOMAIN results : results'[k] = results[k]
             /\ \A id \in DOMAIN remaining :
                   /\ Cardinality({k \in DOMAIN Pushed : Pushed[k].id = id}) = 1
                   /\ \E k \in DOMAIN Pushed :
                         Pushed[k] =
                            TaskResult(id, "Blocked by dependencies: "
                                               \o remaining[id].description,
                                       "scheduler")
                   /\ id \notin completed' /\ id \notin DOMAIN thread'
             /\ completed' = completed /\ thread' = thread /\ wave' = wave
             /\ blocked' = DOMAIN remaining
             /\ pc' = "done"
       /\ blocked' # blocked => blocked = {} /\ pc = "loop" /\ pc' = "done"
       /\ pc # "done"]_vars

\* the first wave has run and the two tasks left are reported as blocked
C21_Witness ==
    /\ pc = "done" /\ wave = 1
    /\ Cardinality(blocked) = 2
    /\ Len(results) = 3
    /\ results[2].worker = "scheduler" /\ results[3].worker = "scheduler"

\* C22 as stated: a thread that has finished while another thread of its
\* wave is still running has its result in results before the other's.
C22_CompletionOrder ==
    \A a, b \in 1..MaxTasks :
        []( ( /\ a \in DOMAIN thread /\ b \in DOMAIN thread
              /\ thread[a].st = "finished" /\ thread[b].st = "running" )
            => []( \A k, l \in DOMAIN results :
                      results[k].id = a /\ results[l].id = b => k < l ) )

\* C22, amended: a join takes the thread of the smallest id of the wave not
\* joined yet, which has finished, whatever other threads have finished; its
\* id goes to completed and its result to the end of results.
C22_SpawnOrder ==
    [][pc = "join" /\ Len(results') # Len(results) =>
          \E id \in DOMAIN thread :
             /\ thread[id].st = "finished" /\ thread'[id].st = "joined"
             /\ \A other \in DOMAIN thread :
                   thread[other].st # "joined" =>
                       /\ id <= other
                       /\ other # id => thread'[other] = thread[other]
             /\ completed' = completed \cup {id}
             /\ results' = Append(results, run_task(thread[id].task))]_vars

\* the thread spawned last in a wave of three has finished, the two spawned
\* before it are still running and no result of the wave is recorded
C22_Witness ==
    /\ pc = "join" /\ Len(handles) = 3 /\ Len(results) = 0
    /\ thread[handles[3]].st = "finished"
    /\ thread[handles[1]].st = "running"
    /\ thread[handles[2]].st = "running"

\* C24: the list self_correction returns has the length of the list it is
\* given, the same id at every position, and the same result wherever the
\* summary does not contain "failed" as written.
C24_CorrectionFrame ==
    [][final' # final =>
          /\ Len(final') = Len(results')
          /\ \A k \in DOMAIN results' :
                /\ final'[k].id = results'[k].id
                /\ (\A p \in 1..(Len(results'[k].summary) - 5) :
                       SubSeq(results'[k].summary, p, p + 5) # "failed")
                   => final'[k] = results'[k]]_vars

\* a blocked task described "Handle FAIL case" is returned as it was
\* reported, next to a result that was rewritten
C24_Witness ==
    /\ pc = "done"
    /\ \E k \in DOMAIN final :
          /\ final[k].worker = "scheduler"
          /\ final[k].summary = "Blocked by dependencies: Handle FAIL case"
    /\ \E k \in DOMAIN final : final[k].worker = "self-corrector"

\* C29: the step in which a worker finishes changes its own thread only: its
\* result is run_task of the Task it was spawned with, and remaining,
\* completed, results and the other threads stay as they are. remaining
\* changes only when the call starts and at a dispatch, completed only at a
\* join, results only at a join and when the blocked tasks are reported.
C29_NoSharedState ==
    [][/\ \A id \in DOMAIN thread :
             thread[id].st = "running" /\ thread'[id].st = "finished" =>
                /\ thread'[id].result = run_task(thread[id].task)
                /\ thread'[id].task = thread[id].task
                /\ \A other \in DOMAIN thread :
                      other # id => thread'[other] = thread[other]
                /\ DOMAIN thread' = DOMAIN thread
                /\ remaining' = remaining /\ completed' = completed
                /\ results' = results /\ handles' = handles /\ pc' = pc
       /\ remaining' # remaining => pc \in {"run", "loop"} /\ pc' \in {"loop", "join"}
       /\ completed' # completed => pc = "join"
       /\ results' # results => pc \in {"join", "loop"}]_vars

\* a worker of a wave of two has finished while the other is running and
\* tasks remain: nothing but its thread has changed since the dispatch
C29_Witness ==
    /\ pc = "join" /\ Len(handles) = 2 /\ wave = 1
    /\ thread[handles[1]].st = "finished"
    /\ thread[handles[2]].st = "running"
    /\ completed = {} /\ results = <<>> /\ DOMAIN remaining # {}

----------------------------------------------------------------------------
(* C23, C25 .. C28, C30: the plans of the planner and their runs *)

Planned == pc \in {"run", "done"}

\* C23 as stated: no result of worker "self-corrector" has "failed" in its
\* summary.
C23_NoFailedLeft ==
    pc = "done" =>
        \A k \in DOMAIN final :
            final[k].worker = "self-corrector" =>
                ~Contains(final[k].summary, "failed")

\* C23, amended: a result of worker "self-corrector" has the id of the raw
\* result, whose summary contains "failed", and the summary "Retry succeeded
\* after adjustment: " followed by that raw summary, so it contains "failed"
\* itself and a second pass matches it again.
C23_FailedKept ==
    pc = "done" =>
        \A k \in DOMAIN final :
            final[k].worker = "self-corrector" =>
                /\ final[k].id = results[k].id
                /\ Contains(results[k].summary, "failed")
                /\ final[k].summary =
                      "Retry succeeded after adjustment: " \o results[k].summary
                /\ Contains(final[k].summary, "failed")
                /\ self_correction(final)[k] # final[k]

\* the task "QA fail depends on b after A" was run by qa and rewritten
C23_Witness ==
    /\ pc = "done"
    /\ \E k \in DOMAIN final :
          final[k] = TaskResult(final[k].id,
              "Retry succeeded after adjustment: qa failed: QA fail depends on b after A",
              "self-corrector")

\* the words of the classification rules, in the order of the tests
RuleWords == <<{"frontend", "ui"}, {"backend", "api"}, {"qa", "test"}>>

RuleWorker == <<"frontend", "backend", "qa">>

\* the rules a description matches, in any case
Matching(description) ==
    {r \in DOMAIN RuleWords :
        \E word \in RuleWords[r] : Contains(to_lowercase(description), word)}

\* C25: the worker of every executed task is the worker of the first rule
\* its description matches in any case, "general" if it matches none.
C25_FirstMatch ==
    pc = "done" =>
        \A k \in DOMAIN results :
            \E i \in DOMAIN tasks :
                /\ tasks[i].id = results[k].id
                /\ LET m == Matching(tasks[i].description) IN
                   /\ m = {} => results[k].worker = "general"
                   /\ \A r \in m :
                         (\A q \in m : r <= q) =>
                             results[k].worker = RuleWorker[r]

\* "build api" matches "ui" and "api" and is run by frontend; "API" is run
\* by backend
C25_Witness ==
    /\ pc = "done"
    /\ \E k \in DOMAIN results :
          results[k].summary = "frontend completed: build api"
    /\ \E k \in DOMAIN results :
          results[k].summary = "backend completed: API"

\* C26: the tasks of a plan are, in order, the non-blank trimmed lines of the
\* text, each with the 1-based index of its line for id, so the ids are
\* strictly increasing; a blank line has no task and its index is no id.
C26_LineIds ==
    Planned =>
        LET ls == Lines(text) IN
        /\ \A k \in DOMAIN tasks :
              /\ tasks[k].id \in DOMAIN ls
              /\ tasks[k].description = Trim(ls[tasks[k].id])
              /\ tasks[k].description # ""
        /\ \A k, l \in DOMAIN tasks : k < l => tasks[k].id < tasks[l].id
        /\ \A i \in DOMAIN ls :
              Trim(ls[i]) # "" <=> \E k \in DOMAIN tasks : tasks[k].id = i

\* a blank line between two tasks: ids 1 and 3
C26_Witness ==
    /\ Planned
    /\ Len(tasks) = 2 /\ tasks[1].id = 1 /\ tasks[2].id = 3

\* task i names task j after "after " or "depends on "
Names(i, j) ==
    LET lower == to_lowercase(tasks[i].description)
        other == to_lowercase(tasks[j].description)
    IN \/ Contains(lower, "after " \o other)
       \/ Contains(lower, "depends on " \o other)

\* C27 as stated: the dependencies of a task are the ids of all the other
\* tasks it names.
C27_AllNamed ==
    Planned =>
        \A i \in DOMAIN tasks :
            tasks[i].dependencies =
                {tasks[j].id : j \in {j \in DOMAIN tasks : j # i /\ Names(i, j)}}

\* C27, amended: of the tasks with the same lowercased description, only the
\* last one of the plan is a dependency of a task that names them; every
\* dependency is the id of another task of the plan. In the run, a task
\* still has its result after the results of all the tasks it names.
C27_LastNamed ==
    /\ pc = "done" =>
          \A i, j \in DOMAIN tasks :
              Names(i, j) =>
                  \E k, l \in DOMAIN results :
                      /\ results[k].id = tasks[j].id
                      /\ results[l].id = tasks[i].id
                      /\ k < l
    /\ Planned =>
        \A i \in DOMAIN tasks :
            /\ \A j \in DOMAIN tasks :
                  tasks[j].id \in tasks[i].dependencies <=>
                      /\ Names(i, j)
                      /\ \A l \in DOMAIN tasks :
                            to_lowercase(tasks[l].description)
                                = to_lowercase(tasks[j].description) => l <= j
            /\ \A d \in tasks[i].dependencies :
                  \E j \in DOMAIN tasks : j # i /\ tasks[j].id = d

\* "a" and "A " are planned as tasks 1 and 2 and "b after a" depends on task
\* 2 only
C27_Witness ==
    /\ Planned
    /\ Len(tasks) = 3
    /\ tasks[1].description = "a" /\ tasks[2].description = "A"
    /\ tasks[3].description = "b after a"
    /\ tasks[3].dependencies = {2}

\* the description reads "<n> after <n>" or "<n> depends on <n>" in any case
SelfNaming(description) ==
    LET lower == to_lowercase(description)
        L == Len(lower)
    IN \E m \in 1..L :
          \/ /\ L = 2 * m + 7
             /\ SubSeq(lower, m + 1, m + 7) = " after "
             /\ SubSeq(lower, 1, m) = SubSeq(lower, m + 8, L)
          \/ /\ L = 2 * m + 12
             /\ SubSeq(lower, m + 1, m + 12) = " depends on "
             /\ SubSeq(lower, 1, m) = SubSeq(lower, m + 13, L)

C30_Schedulable ==
    /\ Planned =>
          \A i \in DOMAIN tasks : \A d \in tasks[i].dependencies :
              /\ d # tasks[i].id
              /\ \E j \in DOMAIN tasks :
                    /\ tasks[j].id = d
                    /\ Len(tasks[j].description) < Len(tasks[i].description)
                    /\ Contains(to_lowercase(tasks[i].description),
                                to_lowercase(tasks[j].description))
    /\ pc = "done" =>
          /\ Len(results) = Len(tasks)
          /\ Len(final) = Len(tasks)
          /\ \A k \in DOMAIN results :
                results[k].worker # "scheduler" /\ final[k].worker # "scheduler"
          /\ \A i \in DOMAIN tasks :
                \E k \in DOMAIN results :
                    /\ results[k] = run_task(tasks[i])
                    /\ \A d \in tasks[i].dependencies :
                          \E l \in 1..(k - 1) : results[l].id = d

\* a chain of three: task 3 depends on tasks 1 and 2, task 2 on task 1, and
\* all three were run
C30_Witness ==
    /\ pc = "done"
    /\ Len(tasks) = 3 /\ Len(results) = 3
    /\ tasks[2].dependencies = {1}
    /\ tasks[3].dependencies = {1, 2}

----------------------------------------------------------------------------
(* C31 .. C34, C36: the executed set, the partition of the ids, failures,
   the order of the results, and the report of the blocked tasks *)

\* E holds every task of the list whose dependencies are all in E
ClosedUnderReady(E) ==
    \A i \in DOMAIN tasks :
        tasks[i].dependencies \subseteq E => tasks[i].id \in E

\* the least set of task ids closed under that rule
Executable ==
    CHOOSE E \in SUBSET TaskIds :
        /\ ClosedUnderReady(E)
        /\ \A F \in SUBSET TaskIds : ClosedUnderReady(F) => E \subseteq F

\* the call returns in this step
Returning == pc # "done" /\ pc' = "done"

\* C31: when run_parallel_workers returns, the ids joined are the least set
\* closed under "all dependencies in the set", each with one result by the
\* worker that ran it, and the other ids, and only they, have a result by
\* "scheduler".
C31_LeastClosedSet ==
    [][Returning =>
          /\ completed' = Executable
          /\ blocked' = TaskIds \ Executable
          /\ \A id \in TaskIds :
                /\ id \in Executable <=>
                      \E k \in DOMAIN results' :
                          results'[k].id = id /\ results'[k].worker # "scheduler"
                /\ id \notin Executable <=>
                      \E k \in DOMAIN results' :
                          results'[k].id = id /\ results'[k].worker = "scheduler"]_vars

\* task 3 depends on itself and is blocked while the unrelated chain of
\* tasks 1 and 2 was executed in two waves
C31_Witness ==
    /\ pc = "done" /\ source = "tasks"
    /\ completed = {1, 2} /\ blocked = {3} /\ wave = 2
    /\ \E i \in DOMAIN tasks : tasks[i].id = 3 /\ 3 \in tasks[i].dependencies

\* the ids of the threads spawned and not joined yet
InFlight == {id \in DOMAIN thread : thread[id].st # "joined"}

\* every task id is in one of remaining, the wave in flight and completed
Partitioned ==
    pc \in {"loop", "join", "done"} =>
        /\ DOMAIN remaining \cup InFlight \cup completed = TaskIds
        /\ DOMAIN remaining \cap InFlight = {}
        /\ DOMAIN remaining \cap completed = {}
        /\ InFlight \cap completed = {}
        /\ \A id \in completed :
              Cardinality({k \in DOMAIN results : results[k].id = id}) = 1
        /\ \A id \in InFlight :
              /\ {k \in DOMAIN results : results[k].id = id} = {}
              /\ thread[id].wave = wave

\* C32: after every step of a run each task id is in exactly one of
\* remaining, the wave in flight, and completed with exactly one result; no
\* id leaves completed and no id of completed is in remaining again.
C32_Partition ==
    [][/\ Partitioned'
       /\ completed \subseteq completed'
       /\ completed \cap DOMAIN remaining' = {}
       /\ pc # "run" => DOMAIN remaining' \subseteq DOMAIN remaining]_vars

\* during the second wave: one id completed, one in flight, one remaining
C32_Witness ==
    /\ pc = "join" /\ wave = 2
    /\ Cardinality(completed) = 1
    /\ Cardinality(InFlight) = 1
    /\ Cardinality(DOMAIN remaining) = 1

\* the raw result of task id says "failed"
RawFailed(rs, id) ==
    \E k \in DOMAIN rs : rs[k].id = id /\ Contains(rs[k].summary, " failed: ")

\* C33: the join of a worker puts the task's id in completed whether its
\* summary says "completed" or "failed"; so when the call returns, every
\* task whose dependencies were all executed was executed too, after them,
\* also when the raw result of a dependency is a failure.
C33_FailureCompletes ==
    [][/\ \A id \in DOMAIN thread :
             thread[id].st = "finished" /\ thread'[id].st = "joined" =>
                 /\ id \in completed'
                 /\ \/ Contains(thread[id].result.summary, " completed: ")
                    \/ Contains(thread[id].result.summary, " failed: ")
       /\ Returning =>
             \A i \in DOMAIN tasks :
                 tasks[i].dependencies \subseteq completed' =>
                     /\ tasks[i].id \in completed'
                     /\ \A d \in tasks[i].dependencies :
                           thread[d].wave < thread[tasks[i].id].wave]_vars

\* task 1 depends on task 2, whose worker reported a failure, and was run by
\* a worker in the second wave
C33_Witness ==
    /\ pc = "done" /\ completed = {1, 2}
    /\ \E i \in DOMAIN tasks : tasks[i].id = 1 /\ tasks[i].dependencies = {2}
    /\ RawFailed(results, 2)
    /\ thread[1].wave = 2
    /\ \E k \in DOMAIN results :
          results[k] = TaskResult(1, "frontend completed: Build api", "frontend")

\* C34: whenever results grows, the results of workers are before the
\* results by "scheduler"; two results of the same wave are in ascending id
\* order, and so are two results by "scheduler".
C34_OrderByIds ==
    [][results' # results =>
          \A k, l \in DOMAIN results' :
              k < l =>
                  /\ results'[k].worker = "scheduler" =>
                        /\ results'[l].worker = "scheduler"
                        /\ results'[k].id < results'[l].id
                  /\ ( /\ results'[k].worker # "scheduler"
                       /\ results'[l].worker # "scheduler"
                       /\ thread'[results'[k].id].wave
                              = thread'[results'[l].id].wave )
                     => results'[k].id < results'[l].id]_vars

\* the Task list was given in descending id order, its wave of two was
\* joined as 1, 2 while 2 had finished first, and one task is blocked
C34_Witness ==
    /\ pc = "join" /\ source = "tasks"
    /\ Len(tasks) = 3 /\ tasks[1].id = 3
    /\ Len(results) = 1 /\ results[1].id = 1
    /\ Len(handles) = 1 /\ handles[1] = 2
    /\ thread[2].st = "finished" /\ thread[2].wave = 1
    /\ DOMAIN remaining = {3}

----------------------------------------------------------------------------
(* C35: tasks with the same lowercased description *)

\* the ids of the tasks of the plan whose lowercased description is D
Bearing(D) ==
    {tasks[j].id : j \in {j \in DOMAIN tasks :
                             to_lowercase(tasks[j].description) = D}}

\* C35: for a lowercased description D borne by several tasks of a plan, the
\* mapping holds for D the largest of their ids, and a task that names D
\* after "after " or "depends on " depends on that task and on none of the
\* earlier ones.
C35_LastOfDuplicates ==
    Planned =>
        \A j \in DOMAIN tasks :
            LET D == to_lowercase(tasks[j].description)
                last == CHOOSE id \in Bearing(D) :
                            \A other \in Bearing(D) : other <= id
            IN Cardinality(Bearing(D)) > 1 =>
                  /\ DescriptionMap(tasks)[D] = last
                  /\ \A i \in DOMAIN tasks :
                        ( \/ Contains(to_lowercase(tasks[i].description),
                                      "after " \o D)
                          \/ Contains(to_lowercase(tasks[i].description),
                                      "depends on " \o D) )
                        => tasks[i].dependencies \cap Bearing(D) = {last}

\* "a" and "A " are tasks 1 and 2; "QA fail depends on b after A" names them
\* and depends on task 2 only
C35_Witness ==
    /\ Planned
    /\ Len(tasks) = 3
    /\ Bearing("a") = {1, 2}
    /\ tasks[3].description = "QA fail depends on b after A"
    /\ tasks[3].dependencies = {2}

----------------------------------------------------------------------------
(* The daemon: the log-watcher thread and the filesystem-watcher thread,
   incidents.json and notifications.json *)

\* log lines appended to the watched log while the daemon runs
MaxAppends == 1

\* struct Notification; id and timestamp, both the time of the call, are
\* left out
new_notification(level, src, message) ==
    [level |-> level, source |-> src, message |-> message]

\* a JSON file: absent, holding a list, or opened for writing and still empty
AbsentFile == [st |-> "absent", list |-> <<>>]

\* storage.rs:126-132 with .unwrap_or_default() (daemon.rs:44, 57, 81, 86):
\* a missing file and a content that does not parse both give the empty Vec
load_incidents(f) == IF f.st = "ok" THEN f.list ELSE <<>>

\* std::fs::write opens the file with truncation before the data is written
TruncatedFile == [st |-> "truncated", list |-> <<>>]

\* a save that leaves a file alone that another thread has written meanwhile
save_incidents_keeping(f, incidents) ==
    IF f.st = "ok" THEN f ELSE [st |-> "ok", list |-> incidents]

\* storage.rs:134-141: the file holds the list given, whatever it held
save_incidents(f, incidents) == [st |-> "ok", list |-> incidents]

\* daemon.rs:46-53: the incidents not stored yet are pushed, in order
RECURSIVE PushNew(_, _, _)
PushNew(existing, incidents, i) ==
    IF i > Len(incidents) THEN existing
    ELSE LET already ==
                 \E k \in DOMAIN existing :
                     /\ existing[k].summary = incidents[i].summary
                     /\ existing[k].kind = incidents[i].kind
         IN PushNew(IF already THEN existing
                    ELSE Append(existing, incidents[i]),
                    incidents, i + 1)

\* daemon.rs:58-64: one "error" notification for each of the last new_count
\* elements of existing, from the last one backwards
LogNotifications(existing, new_count) ==
    [k \in 1..Min(new_count, Len(existing)) |->
        new_notification("error", existing[Len(existing) + 1 - k].source,
                         existing[Len(existing) + 1 - k].summary)]

\* daemon.rs:87-93: one "info" notification for the last element of existing
FsNotifications(existing) ==
    IF existing = <<>> THEN <<>>
    ELSE <<new_notification("info", existing[Len(existing)].source,
                            existing[Len(existing)].summary)>>

\* watcher.rs:139-148: the incident sent for one path of an event
FsIncident(root, path, kind) ==
    Incident(root, "Filesystem change: " \o path,
             Some("Event: " \o kind), "fs-change", None)

\* lines appended to the watched log
DaemonLogLines == {"Error: x", "FATAL", "INFO ok"}

\* the paths under the watched root "/w" that change while the daemon runs,
\* each of them once
DaemonPaths == {"/w/a"}

\* the locals of a watcher thread between two iterations of its loop
ThreadAt(p, last_len) ==
    [pc |-> p, last_len |-> last_len, incidents |-> <<>>, new_count |-> 0,
     loaded |-> 0, existing |-> <<>>, nloaded |-> 0, notifications |-> <<>>]

\* run_daemon has spawned both threads (daemon.rs:39, 76); the log holds
\* one line and neither JSON file exists
DaemonInit ==
    /\ \E line \in DaemonLogLines :
          daemon = [pc |-> "run", log |-> <<line>>, appends |-> 0,
                    changed |-> {}, channel |-> <<>>,
                    incidents |-> AbsentFile, notifications |-> AbsentFile,
                    logw |-> ThreadAt("poll", 0), fsw |-> ThreadAt("recv", 0)]
    /\ watch = [pc |-> "idle"]
    /\ SwarmIdle /\ CmdIdle /\ StoreIdle

\* the daemon changes and nothing else does
DaemonStep(next) ==
    /\ daemon.pc = "run"
    /\ daemon' = next
    /\ UNCHANGED <<watch, swarmVars, cmdVars, storeVars>>

\* a line is appended to the watched log by the program that writes it
AppendLog ==
    /\ daemon.pc = "run" /\ daemon.appends < MaxAppends
    /\ \E line \in DaemonLogLines :
          DaemonStep([daemon EXCEPT !.log = Append(@, line),
                                    !.appends = @ + 1])

\* watcher.rs:136-151: the notify callback sends one incident per path
FsEvent ==
    /\ daemon.pc = "run"
    /\ \E path \in DaemonPaths \ daemon.changed :
          DaemonStep([daemon EXCEPT
              !.channel = Append(@, FsIncident("/w", path, "Create(File)")),
              !.changed = @ \cup {path}])

\* the length in bytes of the log: every line ends with a newline
LogLen(log) == IF log = <<>> THEN 0 ELSE Len(Join_lines(log)) + 1

\* watcher.rs:123-129: the length has changed and is recorded; with the
\* length unchanged monitor_log returns None and the thread sleeps
LogStat ==
    /\ daemon.pc = "run" /\ daemon.logw.pc = "poll"
    /\ LogLen(daemon.log) # daemon.logw.last_len
    /\ DaemonStep([daemon EXCEPT
          !.logw = ThreadAt("read", LogLen(daemon.log))])

\* watcher.rs:130-131: the whole log is read and analysed
LogRead ==
    /\ daemon.pc = "run" /\ daemon.logw.pc = "read"
    /\ DaemonStep([daemon EXCEPT
          !.logw.incidents = analyze_log(Join_lines(daemon.log), "app.log"),
          !.logw.pc = "load"])

\* daemon.rs:44-53: incidents.json is loaded and the new incidents pushed
LogLoad ==
    /\ daemon.pc = "run" /\ daemon.logw.pc = "load"
    /\ \E existing \in {load_incidents(daemon.incidents)} :
          DaemonStep([daemon EXCEPT
              !.logw.loaded = Len(existing),
              !.logw.new_count = Len(daemon.logw.incidents),
              !.logw.existing = PushNew(existing, daemon.logw.incidents, 1),
              !.logw.pc = "truncate"])

\* the thread t opens incidents.json for writing
OpenIncidents(t) ==
    /\ daemon.pc = "run" /\ daemon[t].pc = "truncate"
    /\ DaemonStep([daemon EXCEPT !.incidents = TruncatedFile,
                                 ![t].pc = "write"])

\* daemon.rs:54, 83: the thread t writes its list to incidents.json
WriteIncidents(t) ==
    /\ daemon.pc = "run" /\ daemon[t].pc = "write"
    /\ DaemonStep([daemon EXCEPT
          !.incidents = save_incidents(@, daemon[t].existing),
          ![t].pc = "nload"])

\* daemon.rs:56-64: notifications.json is loaded and the notifications pushed
LogNotify ==
    /\ daemon.pc = "run" /\ daemon.logw.pc = "nload"
    /\ \E ns \in {load_incidents(daemon.notifications)} :
          DaemonStep([daemon EXCEPT
              !.logw.nloaded = Len(ns),
              !.logw.notifications =
                  ns \o LogNotifications(daemon.logw.existing,
                                         daemon.logw.new_count),
              !.logw.pc = "nsave"])

\* the thread t opens notifications.json for writing
OpenNotifications(t) ==
    /\ daemon.pc = "run" /\ daemon[t].pc = "nsave"
    /\ DaemonStep([daemon EXCEPT !.notifications = TruncatedFile,
                                 ![t].pc = "nwrite"])

\* daemon.rs:65, 94: the thread t writes notifications.json and goes back to
\* the head of its loop
WriteNotifications(t) ==
    /\ daemon.pc = "run" /\ daemon[t].pc = "nwrite"
    /\ DaemonStep([daemon EXCEPT
          !.notifications = save_incidents(@, daemon[t].notifications),
          ![t] = ThreadAt(IF t = "logw" THEN "poll" ELSE "recv",
                          daemon[t].last_len)])

\* daemon.rs:79: rx.recv() returns the next incident
FsRecv ==
    /\ daemon.pc = "run" /\ daemon.fsw.pc = "recv"
    /\ daemon.channel # <<>>
    /\ DaemonStep([daemon EXCEPT
          !.fsw.incidents = <<Head(daemon.channel)>>,
          !.channel = Tail(@),
          !.fsw.pc = "load"])

\* daemon.rs:81-82: incidents.json is loaded and the incident pushed
FsLoad ==
    /\ daemon.pc = "run" /\ daemon.fsw.pc = "load"
    /\ \E existing \in {load_incidents(daemon.incidents)} :
          DaemonStep([daemon EXCEPT
              !.fsw.loaded = Len(existing),
              !.fsw.new_count = 1,
              !.fsw.existing = Append(existing, daemon.fsw.incidents[1]),
              !.fsw.pc = "truncate"])

\* daemon.rs:85-93: notifications.json is loaded and the notification pushed
FsNotify ==
    /\ daemon.pc = "run" /\ daemon.fsw.pc = "nload"
    /\ \E ns \in {load_incidents(daemon.notifications)} :
          DaemonStep([daemon EXCEPT
              !.fsw.nloaded = Len(ns),
              !.fsw.notifications =
                  ns \o FsNotifications(daemon.fsw.existing),
              !.fsw.pc = "nsave"])

DaemonNext ==
    \/ AppendLog
    \/ FsEvent
    \/ LogStat
    \/ LogRead
    \/ LogLoad
    \/ LogNotify
    \/ FsRecv
    \/ FsLoad
    \/ FsNotify
    \/ \E t \in {"logw", "fsw"} :
          \/ OpenIncidents(t)
          \/ WriteIncidents(t)
          \/ OpenNotifications(t)
          \/ WriteNotifications(t)

DaemonSpec == DaemonInit /\ [][DaemonNext]_vars

----------------------------------------------------------------------------
(* C37, C38: what the daemon stores and notifies *)

\* the elements a thread has pushed to the list it loaded
PushedTo(list, loaded) == SubSeq(list, loaded + 1, Len(list))

\* C37 as stated: in a poll of the log watcher, no incident already stored
\* is stored again, and every notification pushed is for an incident added
\* to the store in that poll.
C37_OnlyNewNotified ==
    (daemon.pc = "run" /\ daemon.logw.pc \in {"nsave", "nwrite"}) =>
        LET w == daemon.logw
            added == PushedTo(w.existing, w.loaded)
            notified == PushedTo(w.notifications, w.nloaded)
        IN /\ \A j \in DOMAIN added : \A k \in 1..w.loaded :
                 ~( /\ w.existing[k].summary = added[j].summary
                    /\ w.existing[k].kind = added[j].kind )
           /\ \A n \in DOMAIN notified : \E j \in DOMAIN added :
                 /\ notified[n].message = added[j].summary
                 /\ notified[n].source = added[j].source

\* C38: a thread loads incidents.json without a lock, and its save makes the
\* file hold the list it loaded plus its own incidents, whatever another
\* thread has written since; the filesystem watcher then pushes the
\* notification for its incident. So an incident saved by one thread can be
\* absent after the save of the other (the witness).
C38_UnlockedSave ==
    [][\A t \in {"logw", "fsw"} :
          /\ (daemon[t].pc = "load" /\ daemon'[t].pc = "truncate") =>
                /\ daemon'.incidents = daemon.incidents
                /\ PushedTo(daemon'[t].existing, 0)
                      = load_incidents(daemon.incidents)
                           \o PushedTo(daemon'[t].existing, daemon'[t].loaded)
          /\ (daemon[t].pc = "write" /\ daemon'[t].pc = "nload") =>
                /\ daemon'.incidents.st = "ok"
                /\ daemon'.incidents.list = daemon[t].existing
          /\ (t = "fsw" /\ daemon[t].pc = "nload" /\ daemon'[t].pc = "nsave") =>
                \E n \in DOMAIN daemon'[t].notifications :
                    daemon'[t].notifications[n].message
                        = daemon[t].incidents[1].summary]_vars

\* both threads are back at the head of their loops; the filesystem watcher
\* has saved its incident and the notification for it is in
\* notifications.json, but incidents.json, written last by the log watcher,
\* holds the log's incident only
C38_Witness ==
    /\ daemon.pc = "run"
    /\ daemon.logw.pc = "poll" /\ daemon.fsw.pc = "recv"
    /\ daemon.changed = {"/w/a"} /\ daemon.channel = <<>>
    /\ daemon.incidents.st = "ok"
    /\ Len(daemon.incidents.list) = 1
    /\ daemon.incidents.list[1].kind = "error"
    /\ \E n \in DOMAIN daemon.notifications.list :
          /\ daemon.notifications.list[n].level = "info"
          /\ daemon.notifications.list[n].message = "Filesystem change: /w/a"

====
